---- MODULE Spec2Model ----
(***************************************************************************)
(* A model of the botsim game engines: the "doom" variant (src/main.ts)    *)
(* and the discrete "maze" variant (src/unnamed/part_001).  Both keep the  *)
(* whole game in a token that travels in the custom_id of the buttons of a *)
(* message; a turn decodes the token, updates the state and encodes it.    *)
(*                                                                         *)
(* Numbers.  A JavaScript number that holds a real quantity (a position,   *)
(* an angle, a trigonometric value) is a fixed-point integer counting      *)
(* millionths: 1.5 is 1500000.  Distances between entities are computed    *)
(* in thousandths.  NaN is the reserved value NaN.  A timestamp is a       *)
(* record [hi, lo] standing for hi * 10^9 + lo, since Date.now() does not  *)
(* fit the integers of the checker.                                        *)
(* Strings are strings; a missing array element (undefined) is the string  *)
(* "undefined", which is what parseFloat, parseInt and decodeURIComponent  *)
(* turn it into before reading it.                                         *)
(***************************************************************************)
EXTENDS Integers, Sequences, FiniteSets, TLC

VARIABLES
    variant,    \* which program runs: "doom" (src/main.ts) or "maze" (part_001)
    tok,        \* the state token carried by the buttons of the current message
    st,         \* the GameState the last request computed (before encoding)
    prev,       \* the GameState the last request decoded from its token
    act,        \* the action name of the last request
    now,        \* the clock, Date.now()
    turns,      \* number of freely chosen requests handled so far
    origin,     \* the button presses the run opens with (one letter each)
    plan,       \* those of them still to come
    fin,        \* input of a function applied in isolation
    fout,       \* its result
    req,        \* the button press being handled
    resp        \* the handler's response to it

vars == <<variant, tok, st, prev, act, now, turns, origin, plan, fin, fout, req, resp>>

----------------------------------------------------------------------------
(* Fixed-point arithmetic                                                  *)

U == 1000 * 1000            \* one unit, in millionths

NaN == 0 - 2000000000       \* Number.NaN
IsNaN(x) == x = NaN

Abs(x) == IF x < 0 THEN 0 - x ELSE x
Sign(x) == IF x > 0 THEN 1 ELSE IF x < 0 THEN 0 - 1 ELSE 0

\* Math.floor of a fixed-point number, as an integer.
Floor(x) == IF IsNaN(x) THEN NaN ELSE x \div U

\* a * b / U for fixed-point a, b of magnitude at most 2 * U, without
\* leaving 32 bits: a is split into thousands.
MulU(a, b) ==
    LET s == Sign(a) * Sign(b)
        p == Abs(a)
        q == Abs(b)
        v == ((p \div 1000) * q) \div 1000 + ((p % 1000) * q) \div U
    IN s * v

\* a * U / c for 0 <= a <= c, 0 < c < 2^31 / 100, by long division in base 100.
DivU(a, c) ==
    LET q0 == a \div c
        r0 == a % c
        q1 == (r0 * 100) \div c
        r1 == (r0 * 100) % c
        q2 == (r1 * 100) \div c
        r2 == (r1 * 100) % c
        q3 == (r2 * 100) \div c
    IN q0 * U + q1 * 10000 + q2 * 100 + q3

\* Math.sqrt on integers: the largest r with r * r <= n (n < 2^31).
RECURSIVE SqrtStep(_, _, _)
SqrtStep(n, r, bit) ==
    IF bit = 0 THEN r
    ELSE IF r + bit <= 46340 /\ (r + bit) * (r + bit) <= n
         THEN SqrtStep(n, r + bit, bit \div 2)
         ELSE SqrtStep(n, r, bit \div 2)
ISqrt(n) == SqrtStep(n, 0, 32768)

PI == 3141593               \* Math.PI, in millionths of a radian
TWO_PI == 6283185           \* 2 * Math.PI
HALF_PI == 1570796          \* Math.PI / 2
QUARTER_PI == 785398        \* Math.PI / 4

\* cos and sin of x in [0, pi/4] by their Taylor series (Horner form).
CosSmall(x) ==
    LET x2 == MulU(x, x)
    IN U - MulU(x2, U - MulU(x2, U - MulU(x2, U - x2 \div 56) \div 30) \div 12) \div 2
SinSmall(x) ==
    LET x2 == MulU(x, x)
    IN MulU(x, U - MulU(x2, U - MulU(x2, U - MulU(x2, U - x2 \div 72) \div 42) \div 20) \div 6)

\* cos and sin of x in [0, pi/2].
CosQ(x) == IF x <= QUARTER_PI THEN CosSmall(x) ELSE SinSmall(HALF_PI - x)
SinQ(x) == IF x <= QUARTER_PI THEN SinSmall(x) ELSE CosSmall(HALF_PI - x)

\* Math.cos and Math.sin of an angle in millionths of a radian.
\* The angle x of [0, 2 pi) folded into the first quadrant, and the signs
\* cos and sin have at x.
FoldAngle(x) ==
    IF x <= HALF_PI THEN x
    ELSE IF x <= PI THEN PI - x
    ELSE IF x <= PI + HALF_PI THEN x - PI
    ELSE TWO_PI - x
CosSign(x) == IF x <= HALF_PI \/ x > PI + HALF_PI THEN 1 ELSE 0 - 1
SinSign(x) == IF x <= PI THEN 1 ELSE 0 - 1
Cos(a) ==
    IF IsNaN(a) THEN NaN ELSE CosSign(a % TWO_PI) * CosQ(FoldAngle(a % TWO_PI))
Sin(a) ==
    IF IsNaN(a) THEN NaN ELSE SinSign(a % TWO_PI) * SinQ(FoldAngle(a % TWO_PI))

\* atan of a ratio t in [0, 1] (fixed point): the series on
\* [0, tan(pi/8)], and atan(t) = pi/4 - atan((1 - t) / (1 + t)) above it.
AtanSeries(u) ==
    LET u2 == MulU(u, u)
        h6 == U \div 13 - MulU(u2, U \div 15)
        h5 == U \div 11 - MulU(u2, h6)
        h4 == U \div 9 - MulU(u2, h5)
        h3 == U \div 7 - MulU(u2, h4)
        h2 == U \div 5 - MulU(u2, h3)
        h1 == U \div 3 - MulU(u2, h2)
    IN MulU(u, U - MulU(u2, h1))
AtanUnit(t) ==
    IF t <= 414214 THEN AtanSeries(t)
    ELSE QUARTER_PI - AtanSeries(DivU(U - t, U + t))

\* Math.atan2(y, x), in millionths of a radian, in (-pi, pi].
\* atan(ay / ax) for ay, ax >= 0, in [0, pi/2]; 0 at the origin.
AtanBase(ay, ax) ==
    IF ax = 0 /\ ay = 0 THEN 0
    ELSE IF ay <= ax THEN AtanUnit(DivU(ay, ax))
    ELSE HALF_PI - AtanUnit(DivU(ax, ay))
\* The angle of (x, y) from the angle base of (|x|, |y|).
AtanQuadrant(y, x, base) ==
    IF x >= 0 THEN (IF y >= 0 THEN base ELSE 0 - base)
    ELSE (IF y >= 0 THEN PI - base ELSE base - PI)
Atan2(y, x) ==
    IF IsNaN(y) \/ IsNaN(x) THEN NaN ELSE AtanQuadrant(y, x, AtanBase(Abs(y), Abs(x)))

----------------------------------------------------------------------------
(* Strings and the conversions between numbers and strings                 *)

UNDEFINED == "undefined"    \* what a missing array element reads as

CharAt(s, i) == SubSeq(s, i, i)
IsDigit(c) == c \in {"0", "1", "2", "3", "4", "5", "6", "7", "8", "9"}
DigitChar(d) == SubSeq("0123456789", d + 1, d + 1)
DigitVal(c) == CHOOSE d \in 0..9 : DigitChar(d) = c

\* Number.prototype.toString of an integer.
RECURSIVE NatToString(_)
NatToString(n) ==
    IF n < 10 THEN DigitChar(n) ELSE NatToString(n \div 10) \o DigitChar(n % 10)
IntToString(n) ==
    IF IsNaN(n) THEN "NaN"
    ELSE IF n < 0 THEN "-" \o NatToString(0 - n) ELSE NatToString(n)

\* n in decimal, padded with zeros on the left to w digits.
RECURSIVE PadNat(_, _)
PadNat(n, w) == IF w = 0 THEN "" ELSE PadNat(n \div 10, w - 1) \o DigitChar(n % 10)

RECURSIVE Pow10(_)
Pow10(k) == IF k = 0 THEN 1 ELSE 10 * Pow10(k - 1)

\* Number.prototype.toFixed(d) of a fixed-point number, 1 <= d <= 3: the
\* magnitude rounded to d decimals, a tie going up, behind the sign.
toFixed(x, d) ==
    IF IsNaN(x) THEN "NaN"
    ELSE LET q == Pow10(6 - d)
             n == (Abs(x) + q \div 2) \div q
         IN (IF x < 0 THEN "-" ELSE "")
            \o NatToString(n \div Pow10(d)) \o "." \o PadNat(n % Pow10(d), d)

\* The number of digits of s from position i on.
RECURSIVE DigitRun(_, _)
DigitRun(s, i) ==
    IF i <= Len(s) /\ IsDigit(CharAt(s, i)) THEN 1 + DigitRun(s, i + 1) ELSE 0

\* The value of a string of digits (at most 9 of them).
RECURSIVE NatOfDigits(_)
NatOfDigits(s) ==
    IF s = "" THEN 0
    ELSE 10 * NatOfDigits(SubSeq(s, 1, Len(s) - 1)) + DigitVal(CharAt(s, Len(s)))

\* The first 6 decimals of a string of digits, as millionths.
FracOfDigits(s) ==
    LET k == IF Len(s) < 6 THEN Len(s) ELSE 6 IN NatOfDigits(SubSeq(s, 1, k)) * Pow10(6 - k)

\* parseFloat: the longest prefix [sign] digits [. digits] read as a
\* fixed-point number, NaN when it holds no digit.  (Leading blanks,
\* exponents and "Infinity" are not modelled.)
parseFloat(s) ==
    LET signed == Len(s) >= 1 /\ CharAt(s, 1) \in {"-", "+"}
        b == IF signed THEN 2 ELSE 1
        ni == DigitRun(s, b)
        dot == b + ni <= Len(s) /\ CharAt(s, b + ni) = "."
        nf == IF dot THEN DigitRun(s, b + ni + 1) ELSE 0
        mag == NatOfDigits(SubSeq(s, b, b + ni - 1)) * U
               + FracOfDigits(SubSeq(s, b + ni + 1, b + ni + nf))
    IN IF ni + nf = 0 THEN NaN
       ELSE IF signed /\ CharAt(s, 1) = "-" THEN 0 - mag ELSE mag

\* parseInt (radix 10): the longest prefix [sign] digits, NaN when empty.
parseInt(s) ==
    LET signed == Len(s) >= 1 /\ CharAt(s, 1) \in {"-", "+"}
        b == IF signed THEN 2 ELSE 1
        ni == DigitRun(s, b)
        mag == NatOfDigits(SubSeq(s, b, b + ni - 1))
    IN IF ni = 0 THEN NaN
       ELSE IF signed /\ CharAt(s, 1) = "-" THEN 0 - mag ELSE mag

\* Timestamps: [hi, lo] is hi * 10^9 + lo milliseconds.
Giga == 1000 * U
NaNTime == [hi |-> NaN, lo |-> 0]
IsNaNTime(t) == t.hi = NaN
TimeToString(t) ==
    IF IsNaNTime(t) THEN "NaN"
    ELSE IF t.hi = 0 THEN NatToString(t.lo)
    ELSE NatToString(t.hi) \o PadNat(t.lo, 9)
\* parseInt of a timestamp field (unsigned, at most 18 digits).
parseIntTime(s) ==
    LET ni == DigitRun(s, 1)
    IN IF ni = 0 THEN NaNTime
       ELSE IF ni <= 9 THEN [hi |-> 0, lo |-> NatOfDigits(SubSeq(s, 1, ni))]
       ELSE [hi |-> NatOfDigits(SubSeq(s, 1, ni - 9)),
             lo |-> NatOfDigits(SubSeq(s, ni - 8, ni))]
TimeAdd(t, ms) ==
    [hi |-> t.hi + (t.lo + ms) \div Giga, lo |-> (t.lo + ms) % Giga]
\* a - b in milliseconds, cut to +-2 * 10^9; NaN when either is NaN.
TimeDiff(a, b) ==
    IF IsNaNTime(a) \/ IsNaNTime(b) THEN NaN
    ELSE IF a.hi - b.hi >= 2 THEN 2 * Giga - 1
    ELSE IF a.hi - b.hi <= 0 - 2 THEN 1 - 2 * Giga
    ELSE (a.hi - b.hi) * Giga + (a.lo - b.lo)

\* String.prototype.split(d) for a one-character d, and Array.prototype.join.
FindChar(s, d, i) ==
    IF \E k \in i..Len(s) : CharAt(s, k) = d
    THEN CHOOSE k \in i..Len(s) :
            CharAt(s, k) = d /\ \A before \in i..(k - 1) : CharAt(s, before) # d
    ELSE 0
RECURSIVE Split(_, _)
Split(s, d) ==
    LET i == FindChar(s, d, 1)
    IN IF i = 0 THEN <<s>>
       ELSE <<SubSeq(s, 1, i - 1)>> \o Split(SubSeq(s, i + 1, Len(s)), d)
RECURSIVE Join(_, _)
Join(parts, d) ==
    IF Len(parts) = 0 THEN ""
    ELSE IF Len(parts) = 1 THEN parts[1]
    ELSE parts[1] \o d \o Join(Tail(parts), d)

\* parts[i] of a JavaScript array (0-based), undefined when out of range.
At(parts, i) == IF i + 1 <= Len(parts) THEN parts[i + 1] ELSE UNDEFINED

\* The JavaScript % of numbers: the remainder has the sign of the dividend.
JsMod(a, m) == IF IsNaN(a) THEN NaN ELSE IF a >= 0 THEN a % m ELSE 0 - ((0 - a) % m)

\* Math.sqrt(dx * dx + dy * dy) of fixed-point dx, dy, in thousandths
\* (rounded down; |dx|, |dy| below 32).
Dist(dx, dy) ==
    LET mx == Abs(dx) \div 1000
        my == Abs(dy) \div 1000
    IN ISqrt(mx * mx + my * my)

NULL == [isNull |-> TRUE]   \* the decode-failure value
TypeError == "TypeError"    \* stands for a thrown TypeError

----------------------------------------------------------------------------
(* The doom variant: src/main.ts                                           *)

D_MAP_WIDTH == 16
D_MAP_HEIGHT == 10
D_INITIAL_MAP_LAYOUT ==
    << "################",
       "#P.............#",
       "#..##........E.#",
       "#...#..........#",
       "#...#....######",
       "#..............#",
       "#......E.......#",
       "#..............#",
       "#..............#",
       "################" >>

D_FOV == 1047198                    \* Math.PI / 3
D_PLAYER_ROTATION_SPEED == 196350   \* Math.PI / 16
D_PLAYER_MOVE_SPEED == 300000       \* 0.3
D_ENEMY_MOVE_SPEED == 150000        \* 0.15
D_PLAYER_MAX_HEALTH == 5
D_ENEMY_MAX_HEALTH == 3
D_SHOOT_DAMAGE == 1
D_SHOOT_RANGE == 8000               \* 8.0, in thousandths
D_NUM_ENEMIES == 2                  \* the literal 2 of the fixed enemy count
D_CONTACT_RANGE == 500              \* 0.5 * TILE_SIZE, in thousandths
D_AGRO_RANGE == 5000                \* 5 * TILE_SIZE, in thousandths

\* getMapTile: the character of the tile holding (x, y); out of bounds reads
\* as a wall.  A comparison with NaN is false, so a NaN index passes the
\* bounds test: INITIAL_MAP_LAYOUT[NaN] is undefined and indexing it throws,
\* row[NaN] is undefined, and so is a column past the end of a short row.
D_getMapTile(x, y) ==
    LET mapX == Floor(x)
        mapY == Floor(y)
    IN IF \/ (~IsNaN(mapX) /\ (mapX < 0 \/ mapX >= D_MAP_WIDTH))
          \/ (~IsNaN(mapY) /\ (mapY < 0 \/ mapY >= D_MAP_HEIGHT))
       THEN "#"
       ELSE IF IsNaN(mapY) THEN TypeError
       ELSE IF IsNaN(mapX) \/ mapX >= Len(D_INITIAL_MAP_LAYOUT[mapY + 1]) THEN UNDEFINED
       ELSE CharAt(D_INITIAL_MAP_LAYOUT[mapY + 1], mapX + 1)

D_isWall(x, y) == D_getMapTile(x, y) = "#"

\* The tile centres holding character ch, in the order the nested forEach
\* of getInitialGameState meets them (rows, then columns).
RECURSIVE D_FindInRow(_, _, _)
D_FindInRow(ch, y, x) ==
    LET row == D_INITIAL_MAP_LAYOUT[y + 1]
    IN IF x >= Len(row) THEN <<>>
       ELSE (IF CharAt(row, x + 1) = ch
             THEN << [x |-> x * U + U \div 2, y |-> y * U + U \div 2] >> ELSE <<>>)
            \o D_FindInRow(ch, y, x + 1)
RECURSIVE D_FindChars(_, _)
D_FindChars(ch, y) ==
    IF y >= Len(D_INITIAL_MAP_LAYOUT) THEN <<>>
    ELSE D_FindInRow(ch, y, 0) \o D_FindChars(ch, y + 1)

RECURSIVE D_PadEnemies(_)
D_PadEnemies(es) ==
    IF Len(es) >= D_NUM_ENEMIES THEN es
    ELSE D_PadEnemies(Append(es, [x |-> 0 - U, y |-> 0 - U, hp |-> 0, angle |-> 0,
                                  isActive |-> FALSE]))

D_getInitialGameState(t) ==
    LET ps == D_FindChars("P", 0)
        playerPos == IF Len(ps) = 0 THEN [x |-> 1500000, y |-> 1500000] ELSE ps[Len(ps)]
        found == D_FindChars("E", 0)
        enemies == [i \in 1..Len(found) |->
                      [x |-> found[i].x, y |-> found[i].y, hp |-> D_ENEMY_MAX_HEALTH,
                       angle |-> 0, isActive |-> TRUE]]
    IN [px |-> playerPos.x, py |-> playerPos.y, pa |-> QUARTER_PI,
        php |-> D_PLAYER_MAX_HEALTH,
        enemies |-> SubSeq(D_PadEnemies(enemies), 1, D_NUM_ENEMIES),
        message |-> "Game started! Use buttons to play.",
        gameOver |-> FALSE,
        isMovingForward |-> FALSE, isTurningLeft |-> FALSE, isTurningRight |-> FALSE,
        lastInteractionTime |-> t]

Bit(b) == IF b THEN "1" ELSE "0"

\* A faulty enemy block, to test that the properties below notice it: the
\* enemies written last slot first.
RECURSIVE D_EnemyParts_Reversed(_)
D_EnemyParts_Reversed(es) ==
    IF Len(es) = 0 THEN <<>>
    ELSE D_EnemyParts_Reversed(Tail(es))
         \o << toFixed(es[1].x, 2), toFixed(es[1].y, 2), IntToString(es[1].hp),
                Bit(es[1].isActive) >>
RECURSIVE D_EnemyParts(_)
D_EnemyParts(es) ==
    IF Len(es) = 0 THEN <<>>
    ELSE << toFixed(es[1].x, 2), toFixed(es[1].y, 2), IntToString(es[1].hp),
            Bit(es[1].isActive) >> \o D_EnemyParts(Tail(es))

\* Faulty encoders, to test that the properties below tell them apart: one
\* writes the player's y before x, one writes six decimals.
D_serializeGameState_Swapped(state) ==
    Join(<< toFixed(state.py, 2), toFixed(state.px, 2), toFixed(state.pa, 3),
            IntToString(state.php),
            Bit(state.isMovingForward), Bit(state.isTurningLeft), Bit(state.isTurningRight) >>
         \o D_EnemyParts(state.enemies)
         \o << Bit(state.gameOver), TimeToString(state.lastInteractionTime) >>,
         "|")
D_serializeGameState_Wide(state) ==
    Join(<< toFixed(state.px, 6), toFixed(state.py, 6), toFixed(state.pa, 6),
            IntToString(state.php),
            Bit(state.isMovingForward), Bit(state.isTurningLeft), Bit(state.isTurningRight) >>
         \o D_EnemyParts(state.enemies)
         \o << Bit(state.gameOver), TimeToString(state.lastInteractionTime) >>,
         "|")

D_serializeGameState(state) ==
    Join(<< toFixed(state.px, 2), toFixed(state.py, 2), toFixed(state.pa, 3),
            IntToString(state.php),
            Bit(state.isMovingForward), Bit(state.isTurningLeft), Bit(state.isTurningRight) >>
         \o D_EnemyParts(state.enemies)
         \o << Bit(state.gameOver), TimeToString(state.lastInteractionTime) >>,
         "|")

\* The enemy loop of deserializeGameState: slot i is read at currentIdx when
\* four more parts follow it, and is a placeholder (currentIdx unmoved) if not.
\* The result is <<enemies, currentIdx>>.
RECURSIVE D_ReadEnemies(_, _, _, _)
D_ReadEnemies(parts, i, currentIdx, es) ==
    IF i >= D_NUM_ENEMIES THEN <<es, currentIdx>>
    ELSE IF Len(parts) > currentIdx + 3
         THEN D_ReadEnemies(parts, i + 1, currentIdx + 4,
                  Append(es, [x |-> parseFloat(At(parts, currentIdx)),
                              y |-> parseFloat(At(parts, currentIdx + 1)),
                              hp |-> parseInt(At(parts, currentIdx + 2)),
                              isActive |-> At(parts, currentIdx + 3) = "1",
                              angle |-> 0]))
         ELSE D_ReadEnemies(parts, i + 1, currentIdx,
                  Append(es, [x |-> 0, y |-> 0, hp |-> 0, isActive |-> FALSE, angle |-> 0]))

\* The state read from parts, where read is what the enemy loop returned.
D_ReadState(parts, read) ==
    [px |-> parseFloat(At(parts, 0)),
     py |-> parseFloat(At(parts, 1)),
     pa |-> parseFloat(At(parts, 2)),
     php |-> parseInt(At(parts, 3)),
     isMovingForward |-> At(parts, 4) = "1",
     isTurningLeft |-> At(parts, 5) = "1",
     isTurningRight |-> At(parts, 6) = "1",
     enemies |-> read[1],
     message |-> "",
     gameOver |-> At(parts, read[2]) = "1",
     lastInteractionTime |-> parseIntTime(At(parts, read[2] + 1))]
\* The check that closes deserializeGameState: px, php and the enemies' x.
D_CheckState(state) ==
    IF \/ IsNaN(state.px) \/ IsNaN(state.php)
       \/ \E i \in 1..Len(state.enemies) : IsNaN(state.enemies[i].x)
    THEN NULL
    ELSE state
D_deserializeGameState(str) ==
    D_CheckState(D_ReadState(Split(str, "|"), D_ReadEnemies(Split(str, "|"), 0, 7, <<>>)))

\* A faulty toggle, to test that the properties below notice it: a turn to
\* one side lets go of the turn to the other.
D_ApplyToggle_OneTurn(s, action) ==
    IF action = "toggle_forward" THEN [s EXCEPT !.isMovingForward = ~s.isMovingForward]
    ELSE IF action = "toggle_turn_left"
    THEN [s EXCEPT !.isTurningLeft = ~s.isTurningLeft, !.isTurningRight = FALSE]
    ELSE IF action = "toggle_turn_right"
    THEN [s EXCEPT !.isTurningRight = ~s.isTurningRight, !.isTurningLeft = FALSE]
    ELSE s
\* updateGameState, the toggles: the switch on the action name.
D_ApplyToggle(s, action) ==
    IF action = "toggle_forward" THEN [s EXCEPT !.isMovingForward = ~s.isMovingForward]
    ELSE IF action = "toggle_turn_left" THEN [s EXCEPT !.isTurningLeft = ~s.isTurningLeft]
    ELSE IF action = "toggle_turn_right" THEN [s EXCEPT !.isTurningRight = ~s.isTurningRight]
    ELSE s

\* updateGameState, turning: the held turns, then the angle normalized.
D_ApplyTurning(s) ==
    LET a1 == IF s.isTurningLeft THEN s.pa - D_PLAYER_ROTATION_SPEED ELSE s.pa
        a2 == IF s.isTurningRight THEN a1 + D_PLAYER_ROTATION_SPEED ELSE a1
    IN [s EXCEPT !.pa = JsMod(a2 + TWO_PI, TWO_PI)]

\* updateGameState, movement: each axis is accepted on its own.
\* The collision test of a move: x is accepted if (newX, y) is no wall, then
\* y if (x, newY) is no wall, x being the accepted one.
D_SlideY(x, y, newY) == IF ~D_isWall(x, newY) THEN newY ELSE y
D_SlideX(x, y, newX) == IF ~D_isWall(newX, y) THEN newX ELSE x
\* A faulty move, to test that the properties below notice it: the y
\* candidate is tested at the x the player came from.
D_MovePlayer_FromOldX(s, px1, newY) == [s EXCEPT !.px = px1, !.py = D_SlideY(s.px, s.py, newY)]
D_MovePlayer(s, px1, newY) == [s EXCEPT !.px = px1, !.py = D_SlideY(px1, s.py, newY)]
D_ApplyMovement(s) ==
    IF ~s.isMovingForward THEN s
    ELSE D_MovePlayer(s, D_SlideX(s.px, s.py, s.px + MulU(Cos(s.pa), D_PLAYER_MOVE_SPEED)),
                      s.py + MulU(Sin(s.pa), D_PLAYER_MOVE_SPEED))

\* updateGameState, shoot: whether the shot hits this enemy.
D_ShotHits(s, enemy) ==
    /\ enemy.isActive
    /\ LET dx == enemy.x - s.px
           dy == enemy.y - s.py
           dist == Dist(dx, dy)
       IN /\ dist < D_SHOOT_RANGE
          /\ LET angleToEnemy == Atan2(dy, dx)
                 angleDiff == JsMod(s.pa - angleToEnemy + PI, TWO_PI) - PI
             IN Abs(angleDiff) < D_FOV \div 4

\* A faulty forEach of the shoot step that lowers hp and leaves isActive.
RECURSIVE D_ShootFrom_KeepsActive(_, _, _)
D_ShootFrom_KeepsActive(s, i, hit) ==
    IF i > Len(s.enemies) THEN [s EXCEPT !.message = IF hit THEN s.message ELSE "Missed!"]
    ELSE IF D_ShotHits(s, s.enemies[i])
         THEN D_ShootFrom_KeepsActive(
                  [s EXCEPT !.enemies[i].hp = s.enemies[i].hp - D_SHOOT_DAMAGE,
                            !.message = "Hit enemy!"],
                  i + 1, TRUE)
         ELSE D_ShootFrom_KeepsActive(s, i + 1, hit)

\* A faulty forEach of the shoot step that reports a kill as a hit.
RECURSIVE D_ShootFrom_NoNotice(_, _, _)
D_ShootFrom_NoNotice(s, i, hit) ==
    IF i > Len(s.enemies) THEN [s EXCEPT !.message = IF hit THEN s.message ELSE "Missed!"]
    ELSE IF D_ShotHits(s, s.enemies[i])
         THEN LET hp == s.enemies[i].hp - D_SHOOT_DAMAGE
              IN D_ShootFrom_NoNotice(
                     [s EXCEPT !.enemies[i].hp = hp,
                               !.enemies[i].isActive = (hp > 0),
                               !.message = "Hit enemy! (HP: " \o IntToString(hp) \o ")"],
                     i + 1, TRUE)
         ELSE D_ShootFrom_NoNotice(s, i + 1, hit)

\* The forEach of the shoot step from enemy i on; hit is shotHit so far.
RECURSIVE D_ShootFrom(_, _, _)
D_ShootFrom(s, i, hit) ==
    IF i > Len(s.enemies) THEN [s EXCEPT !.message = IF hit THEN s.message ELSE "Missed!"]
    ELSE IF D_ShotHits(s, s.enemies[i])
         THEN LET hp == s.enemies[i].hp - D_SHOOT_DAMAGE
              IN D_ShootFrom([s EXCEPT !.enemies[i].hp = hp,
                                       !.enemies[i].isActive = (hp > 0),
                                       !.message = IF hp <= 0 THEN "Enemy eliminated!"
                                                   ELSE "Hit enemy! (HP: " \o IntToString(hp) \o ")"],
                             i + 1, TRUE)
         ELSE D_ShootFrom(s, i + 1, hit)

D_ApplyShoot(s, action) ==
    IF action = "shoot" THEN D_ShootFrom([s EXCEPT !.message = "Pew!"], 1, FALSE) ELSE s

\* updateGameState up to the enemy AI: toggles, turning, movement, shoot.
D_PlayerStep(newState, action) ==
    D_ApplyShoot(D_ApplyMovement(D_ApplyTurning(D_ApplyToggle(newState, action))), action)

\* The enemy AI, one enemy: attack in contact, else approach in agro range.
D_MoveEnemy(s, i, x1, newEnemyY) ==
    [s EXCEPT !.enemies[i].x = x1,
              !.enemies[i].y = D_SlideY(x1, s.enemies[i].y, newEnemyY)]
D_EnemyApproach(s, i, angleToPlayer) ==
    D_MoveEnemy(s, i,
        D_SlideX(s.enemies[i].x, s.enemies[i].y,
                 s.enemies[i].x + MulU(Cos(angleToPlayer), D_ENEMY_MOVE_SPEED)),
        s.enemies[i].y + MulU(Sin(angleToPlayer), D_ENEMY_MOVE_SPEED))
\* A faulty attack that wounds but never ends the game.
D_EnemyAttack_NeverFatal(s, php) ==
    [s EXCEPT !.php = php,
              !.message = "Ouch! Enemy hit you! (HP: " \o IntToString(php) \o ")"]
D_EnemyAttack(s, php) ==
    [s EXCEPT !.php = php,
              !.gameOver = (php <= 0),
              !.message = IF php <= 0 THEN "You died! Game Over."
                          ELSE "Ouch! Enemy hit you! (HP: " \o IntToString(php) \o ")"]
D_EnemyAct(s, i, dx, dy, distToPlayer) ==
    IF distToPlayer < D_CONTACT_RANGE THEN D_EnemyAttack(s, s.php - 1)
    ELSE IF distToPlayer < D_AGRO_RANGE THEN D_EnemyApproach(s, i, Atan2(dy, dx))
    ELSE s
D_EnemyStep(s, i) ==
    IF ~s.enemies[i].isActive \/ s.gameOver THEN s
    ELSE D_EnemyAct(s, i, s.px - s.enemies[i].x, s.py - s.enemies[i].y,
                    Dist(s.px - s.enemies[i].x, s.py - s.enemies[i].y))

\* The AI steps of the enemies i..last, in array order.
RECURSIVE D_EnemyAIUpTo(_, _, _)
D_EnemyAIUpTo(s, i, last) ==
    IF i > last THEN s ELSE D_EnemyAIUpTo(D_EnemyStep(s, i), i + 1, last)

RECURSIVE D_EnemyAIFrom(_, _)
D_EnemyAIFrom(s, i) ==
    IF i > Len(s.enemies) THEN s ELSE D_EnemyAIFrom(D_EnemyStep(s, i), i + 1)

\* A faulty win check that is content with one enemy down.
D_WinCheck_AnyDown(s) ==
    IF (\E i \in 1..Len(s.enemies) : ~s.enemies[i].isActive) /\ ~s.gameOver
    THEN [s EXCEPT !.message = "All enemies defeated! You WIN!", !.gameOver = TRUE]
    ELSE s
\* updateGameState, the win check.
D_WinCheck(s) ==
    IF (\A i \in 1..Len(s.enemies) : ~s.enemies[i].isActive) /\ ~s.gameOver
    THEN [s EXCEPT !.message = "All enemies defeated! You WIN!", !.gameOver = TRUE]
    ELSE s

\* A faulty update that does not stop at a finished game.
D_updateGameState_NoTerminalCheck(currentState, action, t) ==
    LET newState == [currentState EXCEPT !.message = "", !.lastInteractionTime = t]
    IN D_WinCheck(D_EnemyAIFrom(D_PlayerStep(newState, action), 1))

\* A faulty update in which the enemies act before the shot.
D_updateGameState_EnemiesFirst(currentState, action, t) ==
    LET newState == [currentState EXCEPT !.message = "", !.lastInteractionTime = t]
    IN IF newState.gameOver
       THEN [newState EXCEPT !.message = "Game Over! Start a new game with /doom."]
       ELSE IF newState.php <= 0
       THEN [newState EXCEPT !.gameOver = TRUE, !.message = "You died! Game Over."]
       ELSE D_WinCheck(D_ApplyShoot(
                D_EnemyAIFrom(D_ApplyMovement(D_ApplyTurning(D_ApplyToggle(newState, action))), 1),
                action))

\* updateGameState(currentState, action), with t the value of Date.now().
D_updateGameState(currentState, action, t) ==
    LET newState == [currentState EXCEPT !.message = "", !.lastInteractionTime = t]
    IN IF newState.gameOver
       THEN [newState EXCEPT !.message = "Game Over! Start a new game with /doom."]
       ELSE IF newState.php <= 0
       THEN [newState EXCEPT !.gameOver = TRUE, !.message = "You died! Game Over."]
       ELSE D_WinCheck(D_EnemyAIFrom(D_PlayerStep(newState, action), 1))

----------------------------------------------------------------------------
(* encodeURIComponent and decodeURIComponent.  A character outside ASCII   *)
(* is written <HEX>, its code point between angle brackets.                *)

HexDigits == "0123456789ABCDEF"
LowerHexDigits == "0123456789abcdef"
\* The value of a hexadecimal digit, -1 for any other character.
HexVal(c) ==
    LET i == FindChar(HexDigits, c, 1)
        j == FindChar(LowerHexDigits, c, 1)
    IN IF i > 0 THEN i - 1 ELSE IF j > 0 THEN j - 1 ELSE 0 - 1
HexChar(n) == CharAt(HexDigits, n + 1)
PercentByte(b) == "%" \o HexChar(b \div 16) \o HexChar(b % 16)
RECURSIVE HexToNat(_)
HexToNat(s) ==
    IF s = "" THEN 0
    ELSE 16 * HexToNat(SubSeq(s, 1, Len(s) - 1)) + HexVal(CharAt(s, Len(s)))
RECURSIVE NatToHex(_)
NatToHex(n) == IF n < 16 THEN HexChar(n) ELSE NatToHex(n \div 16) \o HexChar(n % 16)

\* The characters encodeURIComponent leaves as they are.
UriUnreserved ==
    "ABCDEFGHIJKLMNOPQRSTUVWXYZabcdefghijklmnopqrstuvwxyz0123456789-_.!~*'()"
\* Printable ASCII in runs: 32..33, 35..91, 93..95 and 97..126 (the double
\* quote, the backslash and the grave accent occur in no text of the model).
AsciiLow == " !"
AsciiMid == "#$%&'()*+,-./0123456789:;<=>?@ABCDEFGHIJKLMNOPQRSTUVWXYZ["
AsciiHigh == "]^_"
AsciiLetters == "abcdefghijklmnopqrstuvwxyz{|}~"
Ord(c) ==
    IF FindChar(AsciiLow, c, 1) > 0 THEN FindChar(AsciiLow, c, 1) + 31
    ELSE IF FindChar(AsciiMid, c, 1) > 0 THEN FindChar(AsciiMid, c, 1) + 34
    ELSE IF FindChar(AsciiHigh, c, 1) > 0 THEN FindChar(AsciiHigh, c, 1) + 92
    ELSE FindChar(AsciiLetters, c, 1) + 96
Chr(b) ==
    IF b >= 32 /\ b <= 33 THEN CharAt(AsciiLow, b - 31)
    ELSE IF b >= 35 /\ b <= 91 THEN CharAt(AsciiMid, b - 34)
    ELSE IF b >= 93 /\ b <= 95 THEN CharAt(AsciiHigh, b - 92)
    ELSE IF b >= 97 /\ b <= 126 THEN CharAt(AsciiLetters, b - 96)
    ELSE "<" \o NatToHex(b) \o ">"

\* The UTF-8 bytes of a code point, percent-encoded.
Utf8Percent(cp) ==
    IF cp < 128 THEN PercentByte(cp)
    ELSE IF cp < 2048 THEN PercentByte(192 + cp \div 64) \o PercentByte(128 + (cp % 64))
    ELSE IF cp < 65536
    THEN PercentByte(224 + cp \div 4096) \o PercentByte(128 + ((cp \div 64) % 64))
         \o PercentByte(128 + (cp % 64))
    ELSE PercentByte(240 + cp \div 262144) \o PercentByte(128 + ((cp \div 4096) % 64))
         \o PercentByte(128 + ((cp \div 64) % 64)) \o PercentByte(128 + (cp % 64))

RECURSIVE encodeURIComponent(_)
encodeURIComponent(s) ==
    IF s = "" THEN ""
    ELSE LET c == CharAt(s, 1)
             close == FindChar(s, ">", 1)
         IN IF c = "<" /\ close > 2
            THEN Utf8Percent(HexToNat(SubSeq(s, 2, close - 1)))
                 \o encodeURIComponent(SubSeq(s, close + 1, Len(s)))
            ELSE (IF FindChar(UriUnreserved, c, 1) > 0 THEN c ELSE PercentByte(Ord(c)))
                 \o encodeURIComponent(Tail(s))

URIError == "URIError"      \* stands for a thrown URIError
\* The byte of the escape %XX at position i of s, -1 when there is none.
EscapeAt(s, i) ==
    IF i + 2 <= Len(s) /\ CharAt(s, i) = "%"
       /\ HexVal(CharAt(s, i + 1)) >= 0 /\ HexVal(CharAt(s, i + 2)) >= 0
    THEN 16 * HexVal(CharAt(s, i + 1)) + HexVal(CharAt(s, i + 2))
    ELSE 0 - 1
IsCont(b) == b >= 128 /\ b <= 191
\* decodeURIComponent from position i on: the decoded text, or URIError.
RECURSIVE DecodeFrom(_, _)
\* The length of the UTF-8 sequence that starts with byte b0, 0 when none does.
Utf8Length(b0) ==
    IF b0 < 0 THEN 0 ELSE IF b0 < 128 THEN 1
    ELSE IF b0 >= 194 /\ b0 <= 223 THEN 2
    ELSE IF b0 >= 224 /\ b0 <= 239 THEN 3
    ELSE IF b0 >= 240 /\ b0 <= 244 THEN 4 ELSE 0
Utf8CodePoint(n, b0, b1, b2, b3) ==
    IF n = 2 THEN (b0 - 192) * 64 + (b1 - 128)
    ELSE IF n = 3 THEN (b0 - 224) * 4096 + (b1 - 128) * 64 + (b2 - 128)
    ELSE (b0 - 240) * 262144 + (b1 - 128) * 4096 + (b2 - 128) * 64 + (b3 - 128)
Utf8Valid(n, cp, b1, b2, b3) ==
    /\ n > 0
    /\ (n >= 2 => IsCont(b1))
    /\ (n >= 3 => IsCont(b2))
    /\ (n >= 4 => IsCont(b3))
    /\ (n = 3 => cp >= 2048 /\ (cp < 55296 \/ cp > 57343))
    /\ (n = 4 => cp >= 65536 /\ cp <= 1114111)
\* The decoded character c before the decoded rest, which may have thrown.
DecodedBefore(c, rest) == IF rest = URIError THEN URIError ELSE c \o rest
DecodeSequence(s, i, n, b0, cp, valid) ==
    IF valid
    THEN DecodedBefore(IF n = 1 THEN Chr(b0) ELSE "<" \o NatToHex(cp) \o ">",
                       DecodeFrom(s, i + 3 * n))
    ELSE URIError
DecodeBytes(s, i, n, b0, b1, b2, b3) ==
    DecodeSequence(s, i, n, b0, Utf8CodePoint(n, b0, b1, b2, b3),
                   Utf8Valid(n, Utf8CodePoint(n, b0, b1, b2, b3), b1, b2, b3))
DecodeEscape(s, i, b0) ==
    DecodeBytes(s, i, Utf8Length(b0), b0,
                EscapeAt(s, i + 3), EscapeAt(s, i + 6), EscapeAt(s, i + 9))
DecodeFrom(s, i) ==
    IF i > Len(s) THEN ""
    ELSE IF CharAt(s, i) # "%" THEN DecodedBefore(CharAt(s, i), DecodeFrom(s, i + 1))
    ELSE DecodeEscape(s, i, EscapeAt(s, i))
decodeURIComponent(s) == DecodeFrom(s, 1)

----------------------------------------------------------------------------
(* The discrete maze variant: src/unnamed/part_001                         *)

M_MAZE_LAYOUT ==
    << "############",
       "#P.#.......#",
       "#.#.####.#.#",
       "#.#....#.#.#",
       "#.####.#.#R#",
       "#......#...#",
       "############" >>
M_MAP_WIDTH == Len(M_MAZE_LAYOUT[1])
M_MAP_HEIGHT == Len(M_MAZE_LAYOUT)
M_PLAYER_ROTATION_SPEED == HALF_PI
M_PLAYER_MOVE_SPEED == U
M_BLUE_CUBOID_REACTION_TURNS == 3
M_BLUE_CUBOID_WARNING_EMOJIS_LIST ==
    << "<1F355>", "<1F31F>", "<1F389>", "<1F514>", "<1F4A1>", "<1F914>", "<1F47B>" >>
M_ANGLE_TOLERANCE == 10000          \* 0.01

M_getMapTile(x, y) ==
    LET mapX == Floor(x)
        mapY == Floor(y)
    IN IF \/ (~IsNaN(mapX) /\ (mapX < 0 \/ mapX >= M_MAP_WIDTH))
          \/ (~IsNaN(mapY) /\ (mapY < 0 \/ mapY >= M_MAP_HEIGHT))
       THEN "#"
       ELSE IF IsNaN(mapY) THEN TypeError
       ELSE IF IsNaN(mapX) \/ mapX >= Len(M_MAZE_LAYOUT[mapY + 1]) THEN UNDEFINED
       ELSE CharAt(M_MAZE_LAYOUT[mapY + 1], mapX + 1)

M_isWall(x, y) == M_getMapTile(x, y) = "#"

\* findCharInitialPosition from row y_idx on: the centre of the first tile
\* holding ch, NULL when there is none.
RECURSIVE M_FindFromRow(_, _)
M_FindFromRow(ch, y_idx) ==
    IF y_idx >= Len(M_MAZE_LAYOUT) THEN NULL
    ELSE LET x_idx == FindChar(M_MAZE_LAYOUT[y_idx + 1], ch, 1) - 1
         IN IF x_idx # 0 - 1
            THEN [x |-> x_idx * U + U \div 2, y |-> y_idx * U + U \div 2]
            ELSE M_FindFromRow(ch, y_idx + 1)
M_findCharInitialPosition(ch) == M_FindFromRow(ch, 0)

M_getInitialGameState(t) ==
    LET playerInitialPos == M_findCharInitialPosition("P")
        redCuboidInitialPos == M_findCharInitialPosition("R")
    IN [player |-> [x |-> playerInitialPos.x, y |-> playerInitialPos.y, angle |-> HALF_PI],
        redCuboid |-> [x |-> redCuboidInitialPos.x, y |-> redCuboidInitialPos.y,
                       isActive |-> TRUE],
        blueCuboid |-> [warningActive |-> FALSE, warningEmoji |-> "", turnsLeft |-> 0],
        message |-> "Welcome to the Maze!",
        gameOver |-> FALSE,
        lastInteractionTime |-> t]

M_serializeGameState(state) ==
    Join(<< toFixed(state.player.x, 1), toFixed(state.player.y, 1),
            toFixed(state.player.angle, 3),
            toFixed(state.redCuboid.x, 1), toFixed(state.redCuboid.y, 1),
            Bit(state.redCuboid.isActive),
            Bit(state.blueCuboid.warningActive),
            encodeURIComponent(state.blueCuboid.warningEmoji),
            IntToString(state.blueCuboid.turnsLeft),
            Bit(state.gameOver), TimeToString(state.lastInteractionTime) >>,
         "|")

\* deserializeGameState: null when decodeURIComponent throws (the catch) or
\* one of the six checked numbers is NaN.
M_ReadState(parts, emoji) ==
    [player |-> [x |-> parseFloat(At(parts, 0)),
                 y |-> parseFloat(At(parts, 1)),
                 angle |-> parseFloat(At(parts, 2))],
     redCuboid |-> [x |-> parseFloat(At(parts, 3)),
                    y |-> parseFloat(At(parts, 4)),
                    isActive |-> At(parts, 5) = "1"],
     blueCuboid |-> [warningActive |-> At(parts, 6) = "1",
                     warningEmoji |-> emoji,
                     turnsLeft |-> parseInt(At(parts, 8))],
     message |-> "",
     gameOver |-> At(parts, 9) = "1",
     lastInteractionTime |-> parseIntTime(At(parts, 10))]
\* The check that closes deserializeGameState, after the catch of a throw.
M_CheckState(state) ==
    IF state.blueCuboid.warningEmoji = URIError THEN NULL
    ELSE IF \/ IsNaN(state.player.x) \/ IsNaN(state.player.y) \/ IsNaN(state.player.angle)
            \/ IsNaN(state.redCuboid.x) \/ IsNaN(state.redCuboid.y)
            \/ IsNaN(state.blueCuboid.turnsLeft)
    THEN NULL
    ELSE state
M_deserializeGameState(str) ==
    M_CheckState(M_ReadState(Split(str, "|"), decodeURIComponent(At(Split(str, "|"), 7))))

M_playerMovementActions == {"turn_left", "turn_right", "move_forward"}

\* case "move_forward": one tile along a cardinal angle, else the fallback
\* (cosine and sine, snapped to the tile centre); a wall refuses the move.
M_Facing(normalizedAngle, cardinal) == Abs(normalizedAngle - cardinal) < M_ANGLE_TOLERANCE
M_NextX(s, normalizedAngle) ==
    IF M_Facing(normalizedAngle, 0) THEN s.player.x + M_PLAYER_MOVE_SPEED
    ELSE IF M_Facing(normalizedAngle, HALF_PI) THEN s.player.x
    ELSE IF M_Facing(normalizedAngle, PI) THEN s.player.x - M_PLAYER_MOVE_SPEED
    ELSE IF M_Facing(normalizedAngle, 3 * HALF_PI) THEN s.player.x
    ELSE Floor(s.player.x + MulU(Cos(s.player.angle), M_PLAYER_MOVE_SPEED)) * U + U \div 2
M_NextY(s, normalizedAngle) ==
    IF M_Facing(normalizedAngle, 0) THEN s.player.y
    ELSE IF M_Facing(normalizedAngle, HALF_PI) THEN s.player.y + M_PLAYER_MOVE_SPEED
    ELSE IF M_Facing(normalizedAngle, PI) THEN s.player.y
    ELSE IF M_Facing(normalizedAngle, 3 * HALF_PI) THEN s.player.y - M_PLAYER_MOVE_SPEED
    ELSE Floor(s.player.y + MulU(Sin(s.player.angle), M_PLAYER_MOVE_SPEED)) * U + U \div 2
M_MoveTo(s, nextX, nextY) ==
    IF ~M_isWall(nextX, nextY)
    THEN [s EXCEPT !.player.x = nextX, !.player.y = nextY, !.message = "Moved forward."]
    ELSE [s EXCEPT !.message = "Bonk! Hit a wall."]
M_MoveAlong(s, normalizedAngle) ==
    M_MoveTo(s, M_NextX(s, normalizedAngle), M_NextY(s, normalizedAngle))
M_MoveForward(s) ==
    M_MoveAlong(s, JsMod(JsMod(s.player.angle, TWO_PI) + TWO_PI, TWO_PI))

\* The switch on a player movement action, then the angle normalized.
M_NormalizeAngle(s) == [s EXCEPT !.player.angle = JsMod(s.player.angle + TWO_PI, TWO_PI)]
M_PlayerAction(s, action) ==
    M_NormalizeAngle(
        IF action = "turn_left"
        THEN [s EXCEPT !.player.angle = s.player.angle - M_PLAYER_ROTATION_SPEED,
                       !.message = "Turned left."]
        ELSE IF action = "turn_right"
        THEN [s EXCEPT !.player.angle = s.player.angle + M_PLAYER_ROTATION_SPEED,
                       !.message = "Turned right."]
        ELSE M_MoveForward(s))

M_Append(message, text) == (IF message # "" THEN message \o " " ELSE "") \o text

\* A faulty countdown, to test that the properties below notice it: the
\* game ends one action early, when one turn is left.
M_BlueCuboid_Hasty(s, rnd, randomEmojiIdx) ==
    IF s.blueCuboid.warningActive
    THEN IF s.blueCuboid.turnsLeft - 1 <= 1
         THEN [s EXCEPT !.blueCuboid.turnsLeft = s.blueCuboid.turnsLeft - 1,
                        !.gameOver = TRUE,
                        !.message = "Too slow! The Blue Cuboid " \o s.blueCuboid.warningEmoji
                                    \o " got you! Game Over."]
         ELSE [s EXCEPT !.blueCuboid.turnsLeft = s.blueCuboid.turnsLeft - 1]
    ELSE IF rnd
    THEN [s EXCEPT !.blueCuboid.warningActive = TRUE,
                   !.blueCuboid.warningEmoji = M_BLUE_CUBOID_WARNING_EMOJIS_LIST[randomEmojiIdx + 1],
                   !.blueCuboid.turnsLeft = M_BLUE_CUBOID_REACTION_TURNS]
    ELSE s
\* Blue cuboid countdown, or activation when Math.random() < BLUE_CUBOID_CHANCE
\* (rnd) with the emoji at randomEmojiIdx.
M_BlueCuboid(s, rnd, randomEmojiIdx) ==
    IF s.blueCuboid.warningActive
    THEN LET turnsLeft == s.blueCuboid.turnsLeft - 1
         IN IF turnsLeft <= 0
            THEN [s EXCEPT !.blueCuboid.turnsLeft = turnsLeft,
                           !.gameOver = TRUE,
                           !.message = "Too slow! The Blue Cuboid " \o s.blueCuboid.warningEmoji
                                       \o " got you! Game Over."]
            ELSE [s EXCEPT !.blueCuboid.turnsLeft = turnsLeft,
                           !.message = M_Append(s.message,
                               "Blue Cuboid " \o s.blueCuboid.warningEmoji \o " countdown: "
                               \o IntToString(turnsLeft) \o ".")]
    ELSE IF rnd
    THEN LET emoji == M_BLUE_CUBOID_WARNING_EMOJIS_LIST[randomEmojiIdx + 1]
         IN [s EXCEPT !.blueCuboid.warningActive = TRUE,
                      !.blueCuboid.warningEmoji = emoji,
                      !.blueCuboid.turnsLeft = M_BLUE_CUBOID_REACTION_TURNS,
                      !.message = M_Append(s.message,
                          "Warning! A strange presence (" \o emoji \o ") appears! You have "
                          \o IntToString(M_BLUE_CUBOID_REACTION_TURNS) \o " turns to REACT.")]
    ELSE s

\* action === "react_blue_cuboid"
M_React(s) ==
    IF s.blueCuboid.warningActive
    THEN [s EXCEPT !.blueCuboid.warningActive = FALSE,
                   !.blueCuboid.turnsLeft = 0,
                   !.blueCuboid.warningEmoji = "",
                   !.message = "You reacted to the " \o s.blueCuboid.warningEmoji
                               \o " presence in time!"]
    ELSE [s EXCEPT !.message = "You reacted, but nothing seems to be there."]

\* Two faulty red cuboids, to test that the properties below notice them:
\* one always tries the y axis first, one steps back along x when it can
\* go nowhere.
M_RedCuboidAI_YFirst(s) ==
    IF s.gameOver \/ ~s.redCuboid.isActive THEN s
    ELSE IF s.player.y # s.redCuboid.y
            /\ ~M_isWall(s.redCuboid.x, s.redCuboid.y + Sign(s.player.y - s.redCuboid.y) * U)
    THEN [s EXCEPT !.redCuboid.y = s.redCuboid.y + Sign(s.player.y - s.redCuboid.y) * U]
    ELSE IF s.player.x # s.redCuboid.x
            /\ ~M_isWall(s.redCuboid.x + Sign(s.player.x - s.redCuboid.x) * U, s.redCuboid.y)
    THEN [s EXCEPT !.redCuboid.x = s.redCuboid.x + Sign(s.player.x - s.redCuboid.x) * U]
    ELSE s
M_RedCuboidAI_BacksOff(s) ==
    IF s.gameOver \/ ~s.redCuboid.isActive THEN s
    ELSE IF s.player.y # s.redCuboid.y
            /\ ~M_isWall(s.redCuboid.x, s.redCuboid.y + Sign(s.player.y - s.redCuboid.y) * U)
    THEN [s EXCEPT !.redCuboid.y = s.redCuboid.y + Sign(s.player.y - s.redCuboid.y) * U]
    ELSE IF s.player.x # s.redCuboid.x
            /\ ~M_isWall(s.redCuboid.x + Sign(s.player.x - s.redCuboid.x) * U, s.redCuboid.y)
    THEN [s EXCEPT !.redCuboid.x = s.redCuboid.x + Sign(s.player.x - s.redCuboid.x) * U]
    ELSE IF ~M_isWall(s.redCuboid.x - Sign(s.player.x - s.redCuboid.x) * U, s.redCuboid.y)
    THEN [s EXCEPT !.redCuboid.x = s.redCuboid.x - Sign(s.player.x - s.redCuboid.x) * U]
    ELSE s
\* Red cuboid AI: one tile toward the player, the longer axis first.
M_RedCuboidAI(s) ==
    IF s.gameOver \/ ~s.redCuboid.isActive THEN s
    ELSE LET cuboidPos == s.redCuboid
             dx == s.player.x - cuboidPos.x
             dy == s.player.y - cuboidPos.y
             stepX == cuboidPos.x + Sign(dx) * U
             stepY == cuboidPos.y + Sign(dy) * U
             first == Abs(dx) > Abs(dy) /\ ~M_isWall(stepX, cuboidPos.y)
             second == ~first /\ Abs(dy) > 0 /\ ~M_isWall(cuboidPos.x, stepY)
             third == /\ ~first /\ ~second /\ Abs(dx) > 0 /\ Abs(dx) <= Abs(dy)
                      /\ ~M_isWall(stepX, cuboidPos.y)
         IN IF first \/ third THEN [s EXCEPT !.redCuboid.x = stepX]
            ELSE IF second THEN [s EXCEPT !.redCuboid.y = stepY]
            ELSE s

\* Catch condition: the red cuboid stands in the player's tile.
M_Catch(s) ==
    IF /\ ~s.gameOver /\ s.redCuboid.isActive
       /\ Floor(s.player.x) = Floor(s.redCuboid.x)
       /\ Floor(s.player.y) = Floor(s.redCuboid.y)
    THEN [s EXCEPT !.gameOver = TRUE, !.message = "Caught by the Red Cuboid! Game Over."]
    ELSE s

\* Win condition: the player stands on the tile of R after R has left it.
M_Win(s) ==
    LET redCuboidInitialPos == M_findCharInitialPosition("R")
    IN IF /\ ~s.gameOver /\ redCuboidInitialPos # NULL
          /\ Floor(s.player.x) = Floor(redCuboidInitialPos.x)
          /\ Floor(s.player.y) = Floor(redCuboidInitialPos.y)
          /\ \/ Floor(s.redCuboid.x) # Floor(redCuboidInitialPos.x)
             \/ Floor(s.redCuboid.y) # Floor(redCuboidInitialPos.y)
       THEN [s EXCEPT !.gameOver = TRUE,
                      !.message = "You reached the Red Cuboid's starting point after it moved! YOU WIN!"]
       ELSE s

\* updateGameState(currentState, action); t is Date.now(), rnd and
\* randomEmojiIdx are the two draws of Math.random().
\* The rest of the turn after the action: nothing when the blue cuboid has
\* just ended the game (the early return), else the red cuboid, catch and win.
M_AfterAction(acted, action) ==
    IF action \in M_playerMovementActions /\ acted.gameOver THEN acted
    ELSE M_Win(M_Catch(M_RedCuboidAI(acted)))
M_Act(newState, action, rnd, randomEmojiIdx) ==
    IF newState.gameOver THEN newState
    ELSE M_AfterAction(
             IF action \in M_playerMovementActions
             THEN M_BlueCuboid(M_PlayerAction(newState, action), rnd, randomEmojiIdx)
             ELSE IF action = "react_blue_cuboid" THEN M_React(newState)
             ELSE newState,
             action)
M_updateGameState(currentState, action, t, rnd, randomEmojiIdx) ==
    M_Act([currentState EXCEPT !.message = "", !.lastInteractionTime = t],
          action, rnd, randomEmojiIdx)

----------------------------------------------------------------------------
(* Playing the game, turn by turn: a turn decodes the token of the pressed *)
(* button, updates the state and encodes it into the next buttons.         *)

Variants == {"doom", "maze"}
D_ACTIONS == {"toggle_forward", "toggle_turn_left", "toggle_turn_right", "shoot"}
M_ACTIONS == {"turn_left", "turn_right", "move_forward", "react_blue_cuboid"}
\* The action names the handlers recover from their own multi-word buttons:
\* names outside the vocabulary.
D_OTHER_ACTIONS == {"toggle"}
M_OTHER_ACTIONS == {"turn"}

T0 == [hi |-> 1700, lo |-> 0]       \* the clock at the start: 1700000000000
TickMs == 1000                      \* milliseconds between two presses
MaxTurns == 5                       \* free presses from the first message
MaxPlanTurns == 3                   \* free presses after an opening
EmojiChoices == {0, 6}              \* the values drawn for randomEmojiIdx

\* An opening: F toggle_forward, L toggle_turn_left, R toggle_turn_right,
\* S shoot.  The first ends one press from a token that rounds the player
\* onto the wall at (3, 2), the second walks east and shoots both enemies down to the last
\* hit, the third walks into the second enemy and stands until one health
\* is left, the fourth draws both enemies into contact until the attack of
\* the first is the last, the fifth leads both enemies east of column 10,
\* the sixth shoots the second enemy down as it comes into contact.
D_Letter(c) ==
    IF c = "F" THEN "toggle_forward" ELSE IF c = "L" THEN "toggle_turn_left"
    ELSE IF c = "R" THEN "toggle_turn_right" ELSE "shoot"
D_Openings ==
    { "",
      "FLFFSL",
      "SSSLSSSLFSSSSSSSSSSSSSS",
      "FLLRRLLRRLLRRLLRRFLLRRLLRRLLRRLLRRLLRR",
      "FRLRLRLRLRLRLSLLLSSSLSSRLRLLSLRLLSLRFLLLSFRLFFFFFLFFLLL",
      "LFLLLLLRLRLRLLLRLLLRLLLLLRLLLLLRFFLFFRFFLLLLFFFFFFLLLRFLLFFFFF",
      "FRLSSSSSSSSLLRSLLSSLS" }

NoValue == [none |-> TRUE]          \* nothing computed yet
NoPress == [custom_id |-> ""]
NoResponse == [type |-> 0]

Init ==
    /\ variant \in Variants
    /\ origin \in (IF variant = "doom" THEN D_Openings ELSE {""})
    /\ plan = origin
    /\ now = T0
    /\ st = IF variant = "doom" THEN D_getInitialGameState(T0) ELSE M_getInitialGameState(T0)
    /\ tok = IF variant = "doom" THEN D_serializeGameState(st) ELSE M_serializeGameState(st)
    /\ prev = NoValue
    /\ act = ""
    /\ turns = 0
    /\ fin = NoValue /\ fout = NoValue
    /\ req = NoPress /\ resp = NoResponse

Budget == IF origin = "" THEN MaxTurns ELSE MaxPlanTurns

\* A doom turn on action a: decode, updateGameState, encode.
\* What a turn leaves behind: the decoded state, the updated state and its
\* token, the action and the time.
Played(currentGameState, updatedGameState, newGameStateString, a, t) ==
    /\ prev' = currentGameState
    /\ st' = updatedGameState
    /\ tok' = newGameStateString
    /\ act' = a
    /\ now' = t
D_Update(currentGameState, updatedGameState, a, t) ==
    Played(currentGameState, updatedGameState, D_serializeGameState(updatedGameState), a, t)
D_TurnOn(currentGameState, a, t) ==
    /\ currentGameState # NULL
    /\ D_Update(currentGameState, D_updateGameState(currentGameState, a, t), a, t)
D_Turn(a) == D_TurnOn(D_deserializeGameState(tok), a, TimeAdd(now, TickMs))

DoomOpening ==
    /\ variant = "doom" /\ plan # ""
    /\ D_Turn(D_Letter(CharAt(plan, 1)))
    /\ plan' = Tail(plan)
    /\ UNCHANGED <<variant, turns, origin, fin, fout, req, resp>>

DoomTurn ==
    /\ variant = "doom" /\ plan = "" /\ turns < Budget
    /\ \E a \in D_ACTIONS \cup D_OTHER_ACTIONS : D_Turn(a)
    /\ turns' = turns + 1
    /\ UNCHANGED <<variant, origin, plan, fin, fout, req, resp>>

\* A maze turn on action a with the draws rnd and idx of Math.random().
M_Update(currentGameState, updatedGameState, a, t) ==
    Played(currentGameState, updatedGameState, M_serializeGameState(updatedGameState), a, t)
M_TurnOn(currentGameState, a, t, rnd, idx) ==
    /\ currentGameState # NULL
    /\ M_Update(currentGameState, M_updateGameState(currentGameState, a, t, rnd, idx), a, t)
M_Turn(a, rnd, idx) ==
    M_TurnOn(M_deserializeGameState(tok), a, TimeAdd(now, TickMs), rnd, idx)

\* Math.random() is called only on a movement action that finds no warning
\* active, and a second time only when the first draw is below the chance.
M_Draws(token, a) ==
    IF a \in M_playerMovementActions /\ At(Split(token, "|"), 6) # "1"
    THEN BOOLEAN ELSE {FALSE}

MazeTurn ==
    /\ variant = "maze" /\ turns < Budget
    /\ \E a \in M_ACTIONS \cup M_OTHER_ACTIONS :
          \E rnd \in M_Draws(tok, a) : \E idx \in (IF rnd THEN EmojiChoices ELSE {0}) :
             M_Turn(a, rnd, idx)
    /\ turns' = turns + 1
    /\ UNCHANGED <<variant, origin, plan, fin, fout, req, resp>>

Next == DoomOpening \/ DoomTurn \/ MazeTurn

Spec == Init /\ [][Next]_vars

----------------------------------------------------------------------------
(* The horror maze of part_003: a game whose state travels as JSON in the  *)
(* footer of the message, with held keys, health and stamina.              *)

H_MAZE_EXIT_TILE == 9
H_initialMazeMapData ==
    << <<1, 1, 1, 1, 1, 1, 1, 1, 1, 1, 1, 1>>,
       <<1, 0, 0, 0, 1, 0, 0, 0, 0, 0, 0, 1>>,
       <<1, 0, 1, 0, 1, 0, 1, 1, 1, 0, 1, 1>>,
       <<1, 0, 1, 0, 0, 0, 0, 0, 1, 0, 0, 1>>,
       <<1, 0, 1, 1, 1, 0, 1, 0, 1, 1, 0, 1>>,
       <<1, 0, 0, 0, 1, 0, 1, 0, 0, 0, H_MAZE_EXIT_TILE, 1>>,
       <<1, 1, 1, 0, 1, 1, 1, 1, 1, 1, 1, 1>>,
       <<1, 0, 0, 0, 0, 0, 0, 0, 0, 0, 0, 1>>,
       <<1, 1, 1, 1, 1, 1, 1, 1, 1, 1, 1, 1>> >>

\* map[row]?.[col]: a cell outside the map reads undefined, which is
\* neither above 0 nor the exit tile, as 0 is.
H_Cell(row, col) ==
    IF row >= 0 /\ row < Len(H_initialMazeMapData)
       /\ col >= 0 /\ col < Len(H_initialMazeMapData[1])
    THEN H_initialMazeMapData[row + 1][col + 1] ELSE 0
H_Blocked(row, col) == H_Cell(row, col) > 0 /\ H_Cell(row, col) # H_MAZE_EXIT_TILE

H_PLANE == 660000                   \* 0.66, the length of the camera plane
H_initialMazePlayerState ==
    [x |-> U + U \div 2, y |-> U + U \div 2, angle |-> QUARTER_PI,
     dirX |-> Cos(QUARTER_PI), dirY |-> Sin(QUARTER_PI),
     planeX |-> MulU(Cos(QUARTER_PI + HALF_PI), H_PLANE),
     planeY |-> MulU(Sin(QUARTER_PI + HALF_PI), H_PLANE)]

\* Health and stamina are fixed-point numbers like the coordinates.
H_initialMazeState ==
    [player |-> H_initialMazePlayerState,
     heldKeys |-> [w |-> FALSE, s |-> FALSE, a |-> FALSE, d |-> FALSE, sprint |-> FALSE],
     health |-> 100 * U, stamina |-> 100 * U, maxHealth |-> 100 * U, maxStamina |-> 100 * U,
     sprintCost |-> U \div 2, staminaRegen |-> 3 * (U \div 10),
     wallBumpDamage |-> 2 * U, sprintBumpDamage |-> 5 * U,
     gameOver |-> FALSE, win |-> FALSE, message |-> "Find the exit!"]

H_moveSpeedBase == 60000            \* 0.06 of a tile
H_rotationSpeed == 50000            \* 0.05 radian
H_SPRINT_FACTOR == 1750000          \* 1.75
H_BACK_FACTOR == 700000             \* 0.7
H_checkRadius == 200000             \* 0.2 of a tile

\* The stamina step of updateMazeGame: a sprint is paid for and the stamina
\* stops at 0; otherwise it comes back and stops at maxStamina.
H_Sprinting(g) == g.heldKeys.sprint /\ g.stamina > 0 /\ (g.heldKeys.w \/ g.heldKeys.s)
H_moveSpeed(g) ==
    IF H_Sprinting(g) THEN MulU(H_moveSpeedBase, H_SPRINT_FACTOR) ELSE H_moveSpeedBase
H_ClampLow(v) == IF v < 0 THEN 0 ELSE v
H_ClampHigh(v, max) == IF v > max THEN max ELSE v
H_Stamina(g) ==
    IF H_Sprinting(g) THEN [g EXCEPT !.stamina = H_ClampLow(g.stamina - g.sprintCost)]
    ELSE IF g.stamina < g.maxStamina
         THEN [g EXCEPT !.stamina = H_ClampHigh(g.stamina + g.staminaRegen, g.maxStamina)]
         ELSE g
\* An exhausted player lets go of the sprint key.
H_Release(g) ==
    IF g.heldKeys.sprint /\ g.stamina <= 0 THEN [g EXCEPT !.heldKeys.sprint = FALSE] ELSE g

\* The direction and the camera plane turned by the rotation matrix of
\* cosine c and sine s, and the angle moved by da.
H_Rotate(p, c, s, da) ==
    [p EXCEPT !.dirX = MulU(p.dirX, c) - MulU(p.dirY, s),
              !.dirY = MulU(p.dirX, s) + MulU(p.dirY, c),
              !.planeX = MulU(p.planeX, c) - MulU(p.planeY, s),
              !.planeY = MulU(p.planeX, s) + MulU(p.planeY, c),
              !.angle = p.angle + da]
H_TurnA(g) ==
    IF g.heldKeys.a
    THEN [g EXCEPT !.player = H_Rotate(g.player, Cos(H_rotationSpeed), Sin(H_rotationSpeed),
                                       0 - H_rotationSpeed)]
    ELSE g
H_TurnD(g) ==
    IF g.heldKeys.d
    THEN [g EXCEPT !.player = H_Rotate(g.player, Cos(H_rotationSpeed), 0 - Sin(H_rotationSpeed),
                                       H_rotationSpeed)]
    ELSE g

\* The bump into a wall: the damage, and the collapse at no health left.
H_BumpDamage(g) == IF g.heldKeys.sprint THEN g.sprintBumpDamage ELSE g.wallBumpDamage
H_Collapse_KeepsDebt(g) ==
    IF g.health <= 0
    THEN [g EXCEPT !.gameOver = TRUE, !.message = "You collapsed..."]
    ELSE g
H_Collapse(g) ==
    IF g.health <= 0
    THEN [g EXCEPT !.health = 0, !.gameOver = TRUE, !.message = "You collapsed..."]
    ELSE g
H_Bump(g, moved, collided) ==
    IF moved /\ collided
    THEN H_Collapse([g EXCEPT !.health = g.health - H_BumpDamage(g),
                              !.message = IF g.heldKeys.sprint THEN "Ouch! Ran into a wall!"
                                          ELSE "Bump!"])
    ELSE IF moved THEN [g EXCEPT !.message = ""] ELSE g

H_Exit(g) ==
    IF H_Cell(Floor(g.player.y), Floor(g.player.x)) = H_MAZE_EXIT_TILE
    THEN [g EXCEPT !.win = TRUE, !.message = "You found the exit!"]
    ELSE g

\* The move along y, checked against the column the move along x ended in.
H_MoveY(g, newY, moved, collidedX) ==
    IF H_Blocked(Floor(newY + Sign(newY - g.player.y) * H_checkRadius), Floor(g.player.x))
    THEN H_Bump(g, moved, TRUE)
    ELSE H_Bump([g EXCEPT !.player.y = newY], moved, collidedX)
\* The move along x, checked against the row the player stands in.
H_MoveX(g, newX, newY, moved) ==
    IF H_Blocked(Floor(g.player.y), Floor(newX + Sign(newX - g.player.x) * H_checkRadius))
    THEN H_MoveY(g, newY, moved, TRUE)
    ELSE H_MoveY([g EXCEPT !.player.x = newX], newY, moved, FALSE)
\* The step of length moveSpeed: forward on w, 0.7 of it backward on s.
H_Step(held, d, moveSpeed) == IF held THEN MulU(d, moveSpeed) ELSE 0
H_Move(g, moveSpeed) ==
    H_MoveX(g,
            g.player.x + H_Step(g.heldKeys.w, g.player.dirX, moveSpeed)
                - MulU(H_Step(g.heldKeys.s, g.player.dirX, moveSpeed), H_BACK_FACTOR),
            g.player.y + H_Step(g.heldKeys.w, g.player.dirY, moveSpeed)
                - MulU(H_Step(g.heldKeys.s, g.player.dirY, moveSpeed), H_BACK_FACTOR),
            g.heldKeys.w \/ g.heldKeys.s)

updateMazeGame(gameState) ==
    IF gameState.gameOver \/ gameState.win THEN gameState
    ELSE H_Exit(H_Move(H_TurnD(H_TurnA(H_Release(H_Stamina(gameState)))),
                       H_moveSpeed(gameState)))

\* The handler of a maze_ button: a restart, or the toggle of a held key,
\* and one update of a game still running.
H_KEYS == {"w", "s", "a", "d", "sprint"}
H_ACTIONS == {k \o "_toggle" : k \in H_KEYS} \cup {"restart"}
H_Toggle(g, action) ==
    IF action = "restart" THEN H_initialMazeState
    ELSE IF action = "w_toggle" THEN [g EXCEPT !.heldKeys.w = ~g.heldKeys.w]
    ELSE IF action = "s_toggle" THEN [g EXCEPT !.heldKeys.s = ~g.heldKeys.s]
    ELSE IF action = "a_toggle" THEN [g EXCEPT !.heldKeys.a = ~g.heldKeys.a]
    ELSE IF action = "d_toggle" THEN [g EXCEPT !.heldKeys.d = ~g.heldKeys.d]
    ELSE IF action = "sprint_toggle" THEN [g EXCEPT !.heldKeys.sprint = ~g.heldKeys.sprint]
    ELSE g
H_Running(g) == IF ~g.gameOver /\ ~g.win THEN updateMazeGame(g) ELSE g
H_Handle(gameState, action) == H_Running(H_Toggle(gameState, action))

\* An opening of the horror maze: W, S, A, D the toggles of those keys,
\* P the toggle of the sprint key, R the restart.  The first holds the a
\* key for sixteen updates, the second walks into the wall south of the
\* start and sprints into it until the player collapses, the third turns
\* south and sprints up and down the first column until no stamina is left;
\* H_ExitWalk is one more.
H_Letter(c) ==
    IF c = "W" THEN "w_toggle" ELSE IF c = "S" THEN "s_toggle"
    ELSE IF c = "A" THEN "a_toggle" ELSE IF c = "D" THEN "d_toggle"
    ELSE IF c = "P" THEN "sprint_toggle" ELSE "restart"
\* A walk to the exit: east along the first row, south, east along the
\* third row, south into the wall below (7, 5) until 4 health is left,
\* then east along the fifth row, turning south over the last steps so
\* that the sprint step that enters the exit tile also meets the wall
\* below it.
H_ExitWalk ==
    "DPPPPPPPPPPPPPPPDWPPPPPPPPPPPPPPPPPPPPPPPWAPPPPPPPPPPPPP" \o
    "PPPPPPPPPPPPPPPPPPAWPPPPPPPPPPPPPPPPPPPPPPPWDPPPPPPPPPPP" \o
    "PPPPPPPPPPPPPPPPPPPPDWPPPPPPPPPPPPPPPPPPPPPPPPPPPPPPPPPP" \o
    "PPPPPPPPPPPPPWAPPPPPPPPPPPPPPPPPPPPPPPPPPPPPPPAWPPPPPPPP" \o
    "PPPPPPPPPPPPPPPPPPPPPPPPPPPPPPPPPPPPPPPPPPPPPPPWDPPPPPPP" \o
    "PPPPPPPPPPPPPPPPPPPPPPPPDWPPPPPPPPDDPPPPPPAPADDPPAAAPAPP" \o
    "AA"
H_Openings ==
    { "", H_ExitWalk,
      "APPPPPPPPPPPPPPP",
      "WAADDAADDAADDPAADDAADDAADDAADDAAD",
      "APPPPPPPPPPPPPPPAWADADADADADADADADADADADADADADADADADADAD" \o
      "ADWSADADADADADADADADADADADADADADADADADADADADADADADADADAD" \o
      "ADADSWADADADADADADADADADADADADADADADADADADADADWSADADADAD" \o
      "ADADADADADADADADADADADADADADADADADADADADADADADADSWADADAD" }

\* The three games side by side: the buttons of the horror maze carry no
\* token; its state comes back from the footer of the message, where
\* JSON.parse reads what JSON.stringify wrote.
InitGames ==
    \/ Init
    \/ /\ variant = "horror"
       /\ origin \in H_Openings
       /\ plan = origin
       /\ now = T0
       /\ st = H_initialMazeState
       /\ tok = ""
       /\ prev = NoValue
       /\ act = ""
       /\ turns = 0
       /\ fin = NoValue /\ fout = NoValue
       /\ req = NoPress /\ resp = NoResponse

H_Turn(action) ==
    /\ prev' = st
    /\ st' = H_Handle(st, action)
    /\ act' = action
    /\ now' = TimeAdd(now, TickMs)
    /\ UNCHANGED tok

HorrorOpening ==
    /\ variant = "horror" /\ plan # ""
    /\ H_Turn(H_Letter(CharAt(plan, 1)))
    /\ plan' = Tail(plan)
    /\ UNCHANGED <<variant, turns, origin, fin, fout, req, resp>>

HorrorTurn ==
    /\ variant = "horror" /\ plan = "" /\ turns < Budget
    /\ \E action \in H_ACTIONS : H_Turn(action)
    /\ turns' = turns + 1
    /\ UNCHANGED <<variant, origin, plan, fin, fout, req, resp>>

NextGames == DoomOpening \/ DoomTurn \/ MazeTurn \/ HorrorOpening \/ HorrorTurn

SpecGames == InitGames /\ [][NextGames]_vars

----------------------------------------------------------------------------
(* The decoder and the tile lookup applied in isolation: to the tokens a   *)
(* damaged or foreign button can carry, and to any coordinate.             *)

JunkFields == {"x", ""}
\* parts with field i (0-based) replaced by v.
SetField(parts, i, v) == [j \in 1..Len(parts) |-> IF j = i + 1 THEN v ELSE parts[j]]
\* The tokens made from token str by damaging one field, cutting fields off
\* the end, adding a field, or removing or repeating the four fields before
\* the last two (in the doom variant, the last enemy record).
Damaged(str) ==
    LET parts == Split(str, "|")
        n == Len(parts)
    IN { str }
       \cup { Join(SetField(parts, i, v), "|") : i \in 0..(n - 1), v \in JunkFields }
       \cup { Join(SubSeq(parts, 1, m), "|") : m \in 1..(n - 1) }
       \cup { Join(parts \o <<"0">>, "|") }
       \cup { Join(SubSeq(parts, 1, n - 6) \o SubSeq(parts, n - 1, n), "|"),
               Join(SubSeq(parts, 1, n - 2) \o SubSeq(parts, n - 5, n), "|") }

\* The tokens of the first message and of the message after one press.
D_SampleTokens ==
    { D_serializeGameState(D_getInitialGameState(T0)),
      D_serializeGameState(D_updateGameState(D_getInitialGameState(T0), "toggle_forward",
                                             TimeAdd(T0, TickMs))) }
M_SampleTokens ==
    { M_serializeGameState(M_getInitialGameState(T0)),
      M_serializeGameState(M_updateGameState(M_getInitialGameState(T0), "move_forward",
                                             TimeAdd(T0, TickMs), TRUE, 6)) }

HalfTile == U \div 2
MinStep == 0 - 3                    \* coordinates from -1.5 ...
MaxStep == 35                       \* ... to 17.5, in steps of half a tile
Coordinates == { NaN, 0 - 1 } \cup { k * HalfTile : k \in MinStep..MaxStep }

InitPure ==
    /\ variant \in Variants
    /\ fin \in { [f |-> "decode", str |-> str] :
                   str \in UNION { Damaged(b) : b \in (IF variant = "doom" THEN D_SampleTokens
                                                       ELSE M_SampleTokens) } }
               \cup { [f |-> "lookup", x |-> x, y |-> y] : x \in Coordinates, y \in Coordinates }
    /\ fout = NoValue
    /\ tok = "" /\ st = NoValue /\ prev = NoValue /\ act = "" /\ now = T0 /\ turns = 0
    /\ origin = "" /\ plan = ""
    /\ req = NoPress /\ resp = NoResponse

Decode ==
    /\ fin.f = "decode" /\ fout = NoValue
    /\ fout' = IF variant = "doom" THEN D_deserializeGameState(fin.str)
               ELSE M_deserializeGameState(fin.str)
    /\ UNCHANGED <<variant, tok, st, prev, act, now, turns, origin, plan, fin, req, resp>>

\* getMapTile and isWall at (fin.x, fin.y); a throw leaves no result.
Lookup ==
    /\ fin.f = "lookup" /\ fout = NoValue
    /\ LET tile == IF variant = "doom" THEN D_getMapTile(fin.x, fin.y)
                   ELSE M_getMapTile(fin.x, fin.y)
           wall == IF variant = "doom" THEN D_isWall(fin.x, fin.y)
                   ELSE M_isWall(fin.x, fin.y)
       IN fout' = IF tile = TypeError THEN [thrown |-> TypeError]
                  ELSE [tile |-> tile, wall |-> wall]
    /\ UNCHANGED <<variant, tok, st, prev, act, now, turns, origin, plan, fin, req, resp>>

NextPure == Decode \/ Lookup

SpecPure == InitPure /\ [][NextPure]_vars

----------------------------------------------------------------------------
(* The interaction handler: the command that opens a game and the button   *)
(* press (MESSAGE_COMPONENT) that plays a turn.                            *)

EXPIRY_MS == 600000                 \* the inactivity limit of the handlers
M_PREFIX_ALLOWANCE == 25            \* what the maze handler adds to the length
M_CUSTOM_ID_LIMIT == 100
MaxPresses == 5                     \* requests in a run
IdleMs == EXPIRY_MS + 1                    \* a pause longer than the limit
Delays == {TickMs, IdleMs}
\* The pauses before a press: the limit itself is among them.
PressDelays == Delays \cup {EXPIRY_MS}

Button(prefix, action, token) ==
    [action |-> action, token |-> token,
     custom_id |-> prefix \o "_" \o action \o "_" \o token]
\* The buttons of a game message, in the order of the components.
D_Components(token) ==
    << Button("doom", "toggle_forward", token), Button("doom", "shoot", token),
       Button("doom", "toggle_turn_left", token), Button("doom", "toggle_turn_right", token) >>
M_Components(token) ==
    << Button("maze", "turn_left", token), Button("maze", "move_forward", token),
       Button("maze", "turn_right", token), Button("maze", "react_blue_cuboid", token) >>
Components(v, token) == IF v = "doom" THEN D_Components(token) ELSE M_Components(token)

\* const [prefix, action, ...gameStateParts] = customIdFull.split("_")
ParseCustomId(customIdFull) ==
    LET parts == Split(customIdFull, "_")
    IN [prefix |-> parts[1],
        action |-> IF Len(parts) >= 2 THEN parts[2] ELSE "",
        gameStateString |-> IF Len(parts) >= 3 THEN Join(SubSeq(parts, 3, Len(parts)), "_")
                            ELSE ""]

Answer(type, content, components, decoded, updated) ==
    [type |-> type, content |-> content, components |-> components,
     decoded |-> decoded, updated |-> updated]

\* A faulty answer to a token that does not decode: a fresh game.
D_CorruptedAnswer_NewGame ==
    Answer(7, "gameView", D_Components(D_serializeGameState(D_getInitialGameState(T0))),
           NULL, D_getInitialGameState(T0))
D_CorruptedAnswer ==
    Answer(4, "Error: Corrupted game state. Please start a new game with /doom.", <<>>,
           NULL, NoValue)
M_CorruptedAnswer ==
    Answer(4, "Error: Corrupted game state. Please start a new game with /maze.", <<>>,
           NULL, NoValue)

\* case 3 of the doom handler at time t.  decoded and updated record what
\* deserializeGameState and updateGameState returned, NoValue when not called.
D_GameAnswer(currentGameState, updatedGameState) ==
    Answer(7, "gameView",
           IF updatedGameState.gameOver THEN <<>>
           ELSE D_Components(D_serializeGameState(updatedGameState)),
           currentGameState, updatedGameState)
\* A faulty handler, to test that the properties below notice it: a game
\* idle for the limit itself is expired too.
D_HandleState_AtLimit(currentGameState, action, t) ==
    IF currentGameState = NULL THEN D_CorruptedAnswer
    ELSE IF TimeDiff(t, currentGameState.lastInteractionTime) >= EXPIRY_MS
            /\ ~currentGameState.gameOver
    THEN Answer(7, "This game session has expired due to inactivity.", <<>>,
                currentGameState, NoValue)
    ELSE D_GameAnswer(currentGameState, D_updateGameState(currentGameState, action, t))
D_HandleState(currentGameState, action, t) ==
    IF currentGameState = NULL THEN D_CorruptedAnswer
    ELSE IF TimeDiff(t, currentGameState.lastInteractionTime) > EXPIRY_MS
            /\ ~currentGameState.gameOver
    THEN Answer(7, "This game session has expired due to inactivity.", <<>>,
                currentGameState, NoValue)
    ELSE D_GameAnswer(currentGameState, D_updateGameState(currentGameState, action, t))
D_HandleId(id, t) ==
    IF id.prefix # "doom" \/ id.action = "" \/ id.gameStateString = ""
    THEN Answer(4, "Error: Invalid button data.", <<>>, NoValue, NoValue)
    ELSE D_HandleState(D_deserializeGameState(id.gameStateString), id.action, t)
D_HandleComponent(customIdFull, t) == D_HandleId(ParseCustomId(customIdFull), t)

\* case 3 of the maze handler.
M_GameAnswer(currentGameState, updatedGameState, newGameStateString) ==
    IF Len(newGameStateString) + M_PREFIX_ALLOWANCE > M_CUSTOM_ID_LIMIT
    THEN Answer(4, "Error: Game state data is too large.", <<>>,
                currentGameState, updatedGameState)
    ELSE Answer(7, "gameView",
                IF updatedGameState.gameOver THEN <<>>
                ELSE M_Components(newGameStateString),
                currentGameState, updatedGameState)
M_HandleUpdate(currentGameState, updatedGameState) ==
    M_GameAnswer(currentGameState, updatedGameState, M_serializeGameState(updatedGameState))
M_HandleState(currentGameState, action, t, rnd, idx) ==
    IF currentGameState = NULL THEN M_CorruptedAnswer
    ELSE IF TimeDiff(t, currentGameState.lastInteractionTime) > EXPIRY_MS
            /\ ~currentGameState.gameOver
    THEN Answer(7, "This game session has expired due to inactivity.", <<>>,
                currentGameState, NoValue)
    ELSE M_HandleUpdate(currentGameState,
                        M_updateGameState(currentGameState, action, t, rnd, idx))
M_HandleId(id, t, rnd, idx) ==
    IF id.prefix # "maze" \/ id.action = "" \/ id.gameStateString = ""
    THEN Answer(4, "Error: Invalid button data. Please try starting a new game.", <<>>,
                NoValue, NoValue)
    ELSE M_HandleState(M_deserializeGameState(id.gameStateString), id.action, t, rnd, idx)
M_HandleComponent(customIdFull, t, rnd, idx) ==
    M_HandleId(ParseCustomId(customIdFull), t, rnd, idx)

InitHandler ==
    /\ variant \in Variants
    /\ tok = "" /\ st = NoValue /\ prev = NoValue /\ act = ""
    /\ now = T0 /\ turns = 0 /\ origin = "" /\ plan = ""
    /\ fin = NoValue /\ fout = NoValue
    /\ req = NoPress /\ resp = NoResponse

\* case 2: the command opens a game in a new message.
Command ==
    /\ turns < MaxPresses
    /\ \E dt \in Delays :
          LET t == TimeAdd(now, dt)
              initialGameState == IF variant = "doom" THEN D_getInitialGameState(t)
                                  ELSE M_getInitialGameState(t)
              gameStateString == IF variant = "doom" THEN D_serializeGameState(initialGameState)
                                 ELSE M_serializeGameState(initialGameState)
          IN /\ now' = t
             /\ tok' = gameStateString
             /\ st' = initialGameState
             /\ resp' = [type |-> 4, content |-> "gameView",
                         components |-> Components(variant, gameStateString)]
    /\ req' = [custom_id |-> "", command |-> variant]
    /\ prev' = NoValue /\ act' = ""
    /\ turns' = turns + 1
    /\ UNCHANGED <<variant, origin, plan, fin, fout>>

\* What a request with button b answered by r leaves behind.  An answer of
\* type 7 rewrites the game message, an answer of type 4 is a new message
\* beside it.
Handled(b, emitted, r, t) ==
    /\ req' = [custom_id |-> b.custom_id, action |-> b.action, token |-> b.token,
               emitted |-> emitted]
    /\ resp' = [type |-> r.type, content |-> r.content, components |-> r.components]
    /\ prev' = r.decoded
    /\ st' = r.updated
    /\ act' = ParseCustomId(b.custom_id).action
    /\ tok' = IF r.type # 7 THEN tok
              ELSE IF r.components = <<>> THEN "" ELSE r.components[1].token
    /\ now' = t
    /\ turns' = turns + 1
    /\ UNCHANGED <<variant, origin, plan, fin, fout>>

Answered(b, t) ==
    IF variant = "doom" THEN { D_HandleComponent(b.custom_id, t) }
    ELSE { M_HandleComponent(b.custom_id, t, rnd, idx) :
             rnd \in BOOLEAN, idx \in EmojiChoices }

\* The user presses a button of the current game message.
Press ==
    /\ tok # "" /\ turns < MaxPresses
    /\ \E i \in 1..4, dt \in PressDelays :
          LET b == Components(variant, tok)[i]
              t == TimeAdd(now, dt)
          IN \E r \in Answered(b, t) : Handled(b, TRUE, r, t)

\* The user presses a button of a message of the other program.
OtherVariant == IF variant = "doom" THEN "maze" ELSE "doom"
StalePress ==
    /\ tok # "" /\ turns < MaxPresses
    /\ \E i \in 1..4 :
          LET b == Components(OtherVariant, tok)[i]
              t == TimeAdd(now, TickMs)
          IN \E r \in Answered(b, t) : Handled(b, FALSE, r, t)

\* Tokens no game message carries: a doom game with a nine-digit health and a
\* three-digit enemy hp, a maze game warned with three emojis.
D_LongToken ==
    D_serializeGameState([D_getInitialGameState(T0) EXCEPT
                            !.php = 999999999, !.enemies[1].hp = 999])
M_LongToken ==
    M_serializeGameState([M_getInitialGameState(T0) EXCEPT
                            !.blueCuboid = [warningActive |-> TRUE,
                                            warningEmoji |-> "<1F355><1F31F>" \o "<1F389>",
                                            turnsLeft |-> 3]])
\* A MESSAGE_COMPONENT request whose custom_id was written by hand: the
\* handler takes custom_id from the request body as it comes.
\* The maze's buttons all carry names of several words, so that a maze
\* token reaches the decoder only under a name of one word, written by hand
\* before the token of the message on display.
ForgedButtons ==
    { <<IF variant = "doom" THEN Button("doom", "shoot", D_LongToken)
        ELSE Button("maze", "react", M_LongToken), TickMs>> }
    \cup (IF variant = "maze" /\ tok # ""
          THEN { <<Button("maze", "react", tok), dt>> : dt \in PressDelays }
          ELSE {})
ForgedPress ==
    /\ turns < MaxPresses
    /\ \E f \in ForgedButtons :
          \E r \in Answered(f[1], TimeAdd(now, f[2])) :
              Handled(f[1], FALSE, r, TimeAdd(now, f[2]))

NextHandler == Command \/ Press \/ StalePress \/ ForgedPress

SpecHandler == InitHandler /\ [][NextHandler]_vars

----------------------------------------------------------------------------
(* Two presses in flight at once: Deno.serve runs the handler of a request *)
(* up to its await of the body, and from there to its answer, in any order *)
(* with the handler of another request.                                    *)

Requests == 1..2
NoRequest == [pc |-> "none"]
\* The draws of Math.random() a request may make.
Draws == IF variant = "doom" THEN {<<FALSE, 0>>} ELSE BOOLEAN \X EmojiChoices

\* A faulty server, to test that the properties below notice it: it keeps
\* the state of the last turn in memory and plays on from it.
Served_FromMemory(customIdFull, t, rnd, idx) ==
    IF st = NoValue THEN
        (IF variant = "doom" THEN D_HandleComponent(customIdFull, t)
         ELSE M_HandleComponent(customIdFull, t, rnd, idx))
    ELSE IF variant = "doom" THEN D_HandleState(st, ParseCustomId(customIdFull).action, t)
    ELSE M_HandleState(st, ParseCustomId(customIdFull).action, t, rnd, idx)
\* case 3 of the handler, on the custom_id of the request it serves.
Served(customIdFull, t, rnd, idx) ==
    IF variant = "doom" THEN D_HandleComponent(customIdFull, t)
    ELSE M_HandleComponent(customIdFull, t, rnd, idx)

\* A game message is on display, no request is under way.
InitRace ==
    /\ variant \in Variants
    /\ now = T0
    /\ tok = IF variant = "doom" THEN D_serializeGameState(D_getInitialGameState(T0))
             ELSE M_serializeGameState(M_getInitialGameState(T0))
    /\ st = NoValue /\ prev = NoValue /\ act = ""
    /\ turns = 0 /\ origin = "" /\ plan = ""
    /\ fin = NoValue /\ fout = NoValue
    /\ req = [k \in Requests |-> NoRequest]
    /\ resp = [k \in Requests |-> NoResponse]

\* A user presses a button of the message on display: the request leaves
\* with the custom_id of that button.
Arrive ==
    /\ tok # ""
    /\ \E k \in Requests, i \in 1..4 :
          /\ req[k].pc = "none"
          /\ req' = [req EXCEPT ![k] = [pc |-> "sent",
                                        custom_id |-> Components(variant, tok)[i].custom_id,
                                        token |-> tok]]
    /\ UNCHANGED <<variant, tok, st, prev, act, now, turns, origin, plan, fin, fout, resp>>

\* await req.text() of a request returns.
ReadBody ==
    /\ \E k \in Requests :
          /\ req[k].pc = "sent"
          /\ req' = [req EXCEPT ![k].pc = "read"]
    /\ UNCHANGED <<variant, tok, st, prev, act, now, turns, origin, plan, fin, fout, resp>>

\* What the answer r to request k at time t leaves behind: an answer of
\* type 7 rewrites the message on display.
Responded(k, r, t, draw) ==
    /\ resp' = [resp EXCEPT ![k] = [type |-> r.type, answer |-> r, t |-> t,
                                    rnd |-> draw[1], idx |-> draw[2]]]
    /\ req' = [req EXCEPT ![k].pc = "done"]
    /\ prev' = r.decoded
    /\ st' = r.updated
    /\ act' = ParseCustomId(req[k].custom_id).action
    /\ tok' = IF r.type # 7 THEN tok
              ELSE IF r.components = <<>> THEN "" ELSE r.components[1].token
    /\ now' = t
    /\ turns' = turns + 1
    /\ UNCHANGED <<variant, origin, plan, fin, fout>>
\* The rest of the handler of a request runs without a pause, from the
\* parse of the body to the answer.
Respond ==
    \E k \in Requests, draw \in Draws :
        /\ req[k].pc = "read"
        /\ Responded(k, Served(req[k].custom_id, TimeAdd(now, TickMs), draw[1], draw[2]),
                     TimeAdd(now, TickMs), draw)

NextRace == Arrive \/ ReadBody \/ Respond

SpecRace == InitRace /\ [][NextRace]_vars

----------------------------------------------------------------------------
(* renderGameView: the rays cast for the walls, one per screen column, and *)
(* the sprites drawn over them.  The two programs share the constants and  *)
(* the ray casting.                                                        *)

VIEW_WIDTH_CHARS == 21
VIEW_HEIGHT_CHARS == 7
RAY_STEPS == 200                    \* MAX_RAY_DEPTH, 20.0, in steps of 0.1
MAX_RAY_DEPTH == 20000              \* 20.0, in thousandths
INFINITY == 2000000000              \* Infinity, the distance of no wall
NEAR_PLANE == 500000                \* 0.5, the least depth of a drawn sprite
Columns == 0..(VIEW_WIDTH_CHARS - 1)

\* a * b / U for a coordinate a (below 32 tiles) and b of magnitude at
\* most U, both split into thousands.
MulFar(a, b) ==
    Sign(a) * Sign(b)
    * ((Abs(a) \div 1000) * (Abs(b) \div 1000)
       + ((Abs(a) \div 1000) * (Abs(b) % 1000) + (Abs(a) % 1000) * (Abs(b) \div 1000)) \div 1000
       + ((Abs(a) % 1000) * (Abs(b) % 1000)) \div U)

IsWallOf(v, x, y) == IF v = "doom" THEN D_isWall(x, y) ELSE M_isWall(x, y)
\* The while loop of a ray from (x, y) along (eyeX, eyeY): the number of
\* steps of 0.1 to the first wall, 0 when none is met within MAX_RAY_DEPTH.
WallAtStep(v, x, y, eyeX, eyeY, steps) ==
    IsWallOf(v, x + (eyeX * steps) \div 10, y + (eyeY * steps) \div 10)
CastRay(v, x, y, eyeX, eyeY) ==
    IF \E steps \in 1..RAY_STEPS : WallAtStep(v, x, y, eyeX, eyeY, steps)
    THEN CHOOSE steps \in 1..RAY_STEPS :
            /\ WallAtStep(v, x, y, eyeX, eyeY, steps)
            /\ \A before \in 1..(steps - 1) : ~WallAtStep(v, x, y, eyeX, eyeY, before)
    ELSE 0
RayAngle(pa, col) == pa - D_FOV \div 2 + (col * D_FOV) \div VIEW_WIDTH_CHARS
\* correctedDist: the distance walked times the cosine of the ray's angle
\* off the facing angle.
CorrectedDist(steps, c) == IF steps = 0 THEN INFINITY ELSE (steps * c) \div 10
WallDistance(v, x, y, pa, rayAngle) ==
    CorrectedDist(CastRay(v, x, y, Cos(rayAngle), Sin(rayAngle)), Cos(rayAngle - pa))
\* wallDistances after the loop over the columns, column col at col + 1.
WallDistances(v, x, y, pa) ==
    [c \in 1..VIEW_WIDTH_CHARS |-> WallDistance(v, x, y, pa, RayAngle(pa, c - 1))]

\* The sprite at (dx, dy) from a player facing pa: its place in the
\* player's view (relativeY is the depth) and its distance in thousandths.
RelativeX(dx, dy, pa) == MulFar(dx, Cos(0 - pa)) - MulFar(dy, Sin(0 - pa))
RelativeY(dx, dy, pa) == MulFar(dx, Sin(0 - pa)) + MulFar(dy, Cos(0 - pa))
\* enemyScreenX for the angle off the forward vector.
ScreenX(enemyAngle) == (VIEW_WIDTH_CHARS * (D_FOV \div 2 + enemyAngle)) \div D_FOV
\* enemyDist < wallDistances[col], for a column on the screen.
InFrontOfWall(enemyDist, wallDistances, col) ==
    col \in Columns /\ enemyDist * 1000 < wallDistances[col + 1]

\* enemySize, for a distance in thousandths.
SpriteSize(depth) ==
    IF (VIEW_HEIGHT_CHARS * 1000) \div (depth + 1) < 1 THEN 1
    ELSE (VIEW_HEIGHT_CHARS * 1000) \div (depth + 1)

\* A faulty spread, to test that the properties below notice it: only the
\* middle column of a sprite is tested against the wall.
D_SpriteSpread_Untested(enemyDist, wallDistances, enemyScreenX) ==
    {c \in Columns : Abs(c - enemyScreenX) <= SpriteSize(enemyDist) \div 4}
\* The columns of a doom sprite: enemySize / 4 to either side of
\* enemyScreenX, each tested against the wall of its column.
D_SpriteSpread(enemyDist, wallDistances, enemyScreenX) ==
    {c \in Columns :
        /\ Abs(c - enemyScreenX) <= SpriteSize(enemyDist) \div 4
        /\ InFrontOfWall(enemyDist, wallDistances, c)}
\* The columns that get the glyph of a doom enemy (in each, the rows
\* drawStartY to drawEndY, never none).
D_SpriteOnScreen(enemyDist, wallDistances, enemyScreenX) ==
    IF InFrontOfWall(enemyDist, wallDistances, enemyScreenX)
    THEN D_SpriteSpread(enemyDist, wallDistances, enemyScreenX) ELSE {}
D_SpriteAtAngle(enemyDist, enemyAngle, wallDistances) ==
    IF Abs(enemyAngle) < D_FOV \div 2
    THEN D_SpriteOnScreen(enemyDist, wallDistances, ScreenX(enemyAngle)) ELSE {}
D_SpriteSeen(enemyDist, relativeX, relativeY, wallDistances) ==
    IF relativeY > NEAR_PLANE /\ enemyDist < MAX_RAY_DEPTH
    THEN D_SpriteAtAngle(enemyDist, Atan2(relativeX, relativeY), wallDistances) ELSE {}
D_Sprite(state, enemy, wallDistances) ==
    IF ~enemy.isActive THEN {}
    ELSE D_SpriteSeen(Dist(enemy.x - state.px, enemy.y - state.py),
                      RelativeX(enemy.x - state.px, enemy.y - state.py, state.pa),
                      RelativeY(enemy.x - state.px, enemy.y - state.py, state.pa),
                      wallDistances)
D_Sprites(state, wallDistances) ==
    [i \in 1..Len(state.enemies) |-> D_Sprite(state, state.enemies[i], wallDistances)]

\* The column that gets the glyph of the red cuboid of the maze.
M_SPRITE_FOV == (D_FOV * 10) \div 18     \* FOV / 1.8
M_SpriteAtAngle(enemyDist, enemyAngle, wallDistances) ==
    IF Abs(enemyAngle) < M_SPRITE_FOV /\ InFrontOfWall(enemyDist, wallDistances, ScreenX(enemyAngle))
    THEN {ScreenX(enemyAngle)} ELSE {}
M_SpriteSeen(enemyDist, relativeX, relativeY, wallDistances) ==
    IF relativeY > NEAR_PLANE /\ enemyDist < MAX_RAY_DEPTH
    THEN M_SpriteAtAngle(enemyDist, Atan2(relativeX, relativeY), wallDistances) ELSE {}
M_Sprite(state, wallDistances) ==
    IF ~state.redCuboid.isActive THEN {}
    ELSE M_SpriteSeen(Dist(state.redCuboid.x - state.player.x, state.redCuboid.y - state.player.y),
                      RelativeX(state.redCuboid.x - state.player.x,
                                state.redCuboid.y - state.player.y, state.player.angle),
                      RelativeY(state.redCuboid.x - state.player.x,
                                state.redCuboid.y - state.player.y, state.player.angle),
                      wallDistances)

\* renderGameView up to the screen buffer: the wall distances, then the
\* sprites; a finished game is answered with its message alone.
NoView == [wallDistances |-> <<>>, sprites |-> <<>>, drawn |-> TRUE]
WallsOf(v, state) ==
    IF v = "doom" THEN WallDistances(v, state.px, state.py, state.pa)
    ELSE WallDistances(v, state.player.x, state.player.y, state.player.angle)
SpritesOf(v, state, wallDistances) ==
    IF v = "doom" THEN D_Sprites(state, wallDistances) ELSE << M_Sprite(state, wallDistances) >>

\* The states rendered: those of a game played along a plan, each state
\* as updateGameState returns it and the next turn reads from its token.
\* A walk during which an enemy closes in on the player past the corner
\* of a wall, near enough for a sprite several columns wide.
D_Walk == "RLRLFLLLLRRLLRRLRLLLLRRRLLLLLLLFLLLRRFF"
\* A walk of the maze: L turn_left, R turn_right, F move_forward, with no
\* warning drawn.
M_Letter(c) ==
    IF c = "L" THEN "turn_left" ELSE IF c = "R" THEN "turn_right" ELSE "move_forward"
M_Walk == "FFFFLFFFFFLFFRFFLLFFRRFFFF"
ViewPlans(v) == IF v = "doom" THEN D_Openings \cup {D_Walk} ELSE {M_Walk}
\* The state after the next move of the plan.
ViewNext(v, updatedGameState, move, t) ==
    IF v = "doom"
    THEN D_updateGameState(D_deserializeGameState(D_serializeGameState(updatedGameState)),
                           D_Letter(move), t)
    ELSE M_updateGameState(M_deserializeGameState(M_serializeGameState(updatedGameState)),
                           M_Letter(move), t, FALSE, 0)

InitView ==
    /\ variant \in Variants
    /\ origin \in ViewPlans(variant)
    /\ plan = origin
    /\ now = T0
    /\ st = IF variant = "doom" THEN D_getInitialGameState(T0) ELSE M_getInitialGameState(T0)
    /\ fin = [f |-> "render", state |-> st]
    /\ fout = NoValue
    /\ tok = "" /\ prev = NoValue /\ act = "" /\ turns = 0
    /\ req = NoPress /\ resp = NoResponse

\* The next move of the plan is played and its state is the one to render.
ViewTurn ==
    /\ plan # "" /\ fout = NoValue
    /\ st' = ViewNext(variant, st, CharAt(plan, 1), TimeAdd(now, TickMs))
    /\ fin' = [f |-> "render", state |-> st']
    /\ now' = TimeAdd(now, TickMs)
    /\ plan' = Tail(plan)
    /\ UNCHANGED <<variant, tok, prev, act, turns, origin, fout, req, resp>>
\* The loop over the columns that casts the rays.
Raycast ==
    /\ fin.f = "render" /\ fout = NoValue
    /\ fout' = IF fin.state.gameOver THEN NoView
               ELSE [wallDistances |-> WallsOf(variant, fin.state), sprites |-> <<>>,
                     drawn |-> FALSE]
    /\ UNCHANGED <<variant, tok, st, prev, act, now, turns, origin, plan, fin, req, resp>>
\* The sprites drawn over the walls.
DrawSprites ==
    /\ fout # NoValue /\ ~fout.drawn
    /\ fout' = [fout EXCEPT !.sprites = SpritesOf(variant, fin.state, fout.wallDistances),
                            !.drawn = TRUE]
    /\ UNCHANGED <<variant, tok, st, prev, act, now, turns, origin, plan, fin, req, resp>>

NextView == ViewTurn \/ Raycast \/ DrawSprites

SpecView == InitView /\ [][NextView]_vars

----------------------------------------------------------------------------
(* The red cuboid's step applied in isolation: to every placing of the     *)
(* player and the cuboid on the centres of floor tiles of the maze.        *)

TileCentres ==
    { <<col * U + U \div 2, row * U + U \div 2>> :
          col \in 0..(M_MAP_WIDTH - 1), row \in 0..(M_MAP_HEIGHT - 1) }
FloorCentres == { c \in TileCentres : ~M_isWall(c[1], c[2]) }
Placed(player, cuboid) ==
    [M_getInitialGameState(T0) EXCEPT !.player.x = player[1], !.player.y = player[2],
                                      !.redCuboid.x = cuboid[1], !.redCuboid.y = cuboid[2]]

InitChase ==
    /\ variant = "maze"
    /\ fin \in { [f |-> "chase", state |-> Placed(player, cuboid)] :
                   player \in FloorCentres, cuboid \in FloorCentres }
    /\ fout = NoValue
    /\ tok = "" /\ st = NoValue /\ prev = NoValue /\ act = ""
    /\ now = T0 /\ turns = 0 /\ origin = "" /\ plan = ""
    /\ req = NoPress /\ resp = NoResponse

\* The red cuboid AI block of updateGameState.
Chase ==
    /\ fin.f = "chase" /\ fout = NoValue
    /\ fout' = M_RedCuboidAI(fin.state)
    /\ UNCHANGED <<variant, tok, st, prev, act, now, turns, origin, plan, fin, req, resp>>

NextChase == Chase

SpecChase == InitChase /\ [][NextChase]_vars

----------------------------------------------------------------------------
(* Properties                                                              *)

deserializeGameState(v, str) ==
    IF v = "doom" THEN D_deserializeGameState(str) ELSE M_deserializeGameState(str)
serializeGameState(v, state) ==
    IF v = "doom" THEN D_serializeGameState(state) ELSE M_serializeGameState(state)
Vocabulary(v) == IF v = "doom" THEN D_ACTIONS ELSE M_ACTIONS

\* Half a unit of the last of d decimals.
HalfUnit(d) == Pow10(6 - d) \div 2
Near(a, b, d) == ~IsNaN(a) /\ ~IsNaN(b) /\ Abs(a - b) <= HalfUnit(d)

D_Agree(d, s) ==
    /\ Near(d.px, s.px, 2) /\ Near(d.py, s.py, 2) /\ Near(d.pa, s.pa, 3)
    /\ d.php = s.php
    /\ d.isMovingForward = s.isMovingForward
    /\ d.isTurningLeft = s.isTurningLeft
    /\ d.isTurningRight = s.isTurningRight
    /\ Len(d.enemies) = Len(s.enemies)
    /\ \A i \in 1..Len(s.enemies) :
          /\ Near(d.enemies[i].x, s.enemies[i].x, 2)
          /\ Near(d.enemies[i].y, s.enemies[i].y, 2)
          /\ d.enemies[i].hp = s.enemies[i].hp
          /\ d.enemies[i].isActive = s.enemies[i].isActive
    /\ d.gameOver = s.gameOver
    /\ d.lastInteractionTime = s.lastInteractionTime
M_Agree(d, s) ==
    /\ Near(d.player.x, s.player.x, 1) /\ Near(d.player.y, s.player.y, 1)
    /\ Near(d.player.angle, s.player.angle, 3)
    /\ Near(d.redCuboid.x, s.redCuboid.x, 1) /\ Near(d.redCuboid.y, s.redCuboid.y, 1)
    /\ d.redCuboid.isActive = s.redCuboid.isActive
    /\ d.blueCuboid = s.blueCuboid
    /\ d.gameOver = s.gameOver
    /\ d.lastInteractionTime = s.lastInteractionTime

Agree(v, d, s) == d # NULL /\ (IF v = "doom" THEN D_Agree(d, s) ELSE M_Agree(d, s))

\* C1: in both variants, every state reached from the first one by turns
\* decodes from its own encoding, and the decoded state agrees with it on
\* every encoded field: positions and the angle to half a unit of their last
\* decimal (2 resp. 1 decimals, 3 for the angle), the rest exactly.
C1_CodecRoundTrip ==
    Agree(variant, deserializeGameState(variant, serializeGameState(variant, st)), st)
\* A doom turn has been played and the encoding rounded the player's
\* position, the angle and the position of an enemy.
C1_Witness ==
    /\ act # "" /\ variant = "doom"
    /\ D_deserializeGameState(tok).px # st.px
    /\ D_deserializeGameState(tok).pa # st.pa
    /\ \E i \in 1..Len(st.enemies) : D_deserializeGameState(tok).enemies[i].x # st.enemies[i].x

\* C2: pressing a button the handler emitted makes the handler recover the
\* action name and the token the button was made from; the token decodes and
\* the handler goes on to the turn (or to the expiry answer).
C2_ButtonRoundTrip ==
    (req.custom_id # "" /\ req.emitted) =>
        LET id == ParseCustomId(req.custom_id)
        IN /\ id.action = req.action
           /\ id.gameStateString = req.token
           /\ prev = deserializeGameState(variant, req.token)
           /\ prev # NULL

HasNaN(v, state) ==
    IF v = "doom"
    THEN \/ IsNaN(state.px) \/ IsNaN(state.py) \/ IsNaN(state.pa) \/ IsNaN(state.php)
         \/ \E i \in 1..Len(state.enemies) :
               \/ IsNaN(state.enemies[i].x) \/ IsNaN(state.enemies[i].y)
               \/ IsNaN(state.enemies[i].hp)
         \/ IsNaNTime(state.lastInteractionTime)
    ELSE \/ IsNaN(state.player.x) \/ IsNaN(state.player.y) \/ IsNaN(state.player.angle)
         \/ IsNaN(state.redCuboid.x) \/ IsNaN(state.redCuboid.y)
         \/ IsNaN(state.blueCuboid.turnsLeft)
         \/ IsNaNTime(state.lastInteractionTime)

\* C3: the decoder never returns a state that holds NaN in a numeric field;
\* a token with such a field decodes to null.
C3_DecodeFailsClosedOnNaN ==
    (fin.f = "decode" /\ fout # NoValue /\ fout # NULL) => ~HasNaN(variant, fout)

D_ARITY == 7 + 4 * D_NUM_ENEMIES + 2
\* C4: the doom decoder returns null for every token whose number of fields
\* is not 7 + 4 * 2 + 2.
C4_DecodeEnforcesArity ==
    (variant = "doom" /\ fin.f = "decode" /\ fout # NoValue
     /\ Len(Split(fin.str, "|")) # D_ARITY) => fout = NULL

CorruptedMessage(v) ==
    IF v = "doom" THEN "Error: Corrupted game state. Please start a new game with /doom."
    ELSE "Error: Corrupted game state. Please start a new game with /maze."
\* The pressed button parses into prefix, action and token, and the token
\* does not decode.
DecodeFailed ==
    /\ req.custom_id # ""
    /\ LET id == ParseCustomId(req.custom_id)
       IN /\ id.prefix = variant /\ id.action # "" /\ id.gameStateString # ""
          /\ deserializeGameState(variant, id.gameStateString) = NULL

\* C5: when the token of a button press does not decode, the handler answers
\* with the corrupted-state error in a message of its own, updateGameState
\* is not called and the answer carries no button.
C5_DecodeFailureDoesNotAdvance ==
    DecodeFailed =>
        /\ resp.type = 4
        /\ resp.content = CorruptedMessage(variant)
        /\ resp.components = <<>>
        /\ st = NoValue
C5_Witness == DecodeFailed /\ req.emitted /\ tok # ""

Frozen(state) == [state EXCEPT !.message = "", !.lastInteractionTime = T0]

\* C6: in both variants a turn on a finished game returns a finished game
\* that differs from the decoded one in message and lastInteractionTime only.
C6_TerminalAbsorbing ==
    (act # "" /\ prev.gameOver) => (st.gameOver /\ Frozen(st) = Frozen(prev))
\* A turn that asks to move, played on a finished game: only the time moved.
C6_Witness ==
    /\ act \in {"toggle_forward", "move_forward"}
    /\ prev.gameOver
    /\ st.lastInteractionTime # prev.lastInteractionTime

\* C7: a turn on an action name outside the vocabulary, on a game that is
\* not finished, changes no encoded field but lastInteractionTime.
C7_UnknownActionIsNoOp ==
    (act # "" /\ act \notin Vocabulary(variant) /\ ~prev.gameOver) =>
        serializeGameState(variant,
            [st EXCEPT !.lastInteractionTime = prev.lastInteractionTime])
        = serializeGameState(variant, prev)

\* The state the token carries places the player, an active enemy or the
\* red cuboid in a wall tile.
InWall(v, state) ==
    IF v = "doom"
    THEN \/ D_isWall(state.px, state.py)
         \/ \E i \in 1..Len(state.enemies) :
               state.enemies[i].isActive /\ D_isWall(state.enemies[i].x, state.enemies[i].y)
    ELSE \/ M_isWall(state.player.x, state.player.y)
         \/ (state.redCuboid.isActive /\ M_isWall(state.redCuboid.x, state.redCuboid.y))

\* C8: through any sequence of turns from the first message, the state the
\* token carries never has the player, an active enemy or the red cuboid in
\* a wall tile.
C8_NobodyInWall == ~InWall(variant, deserializeGameState(variant, tok))

Width(v) == IF v = "doom" THEN D_MAP_WIDTH ELSE M_MAP_WIDTH
Height(v) == IF v = "doom" THEN D_MAP_HEIGHT ELSE M_MAP_HEIGHT
\* The tile index of (x, y) is not a tile of the map.
OutOfBounds(v, x, y) ==
    \/ IsNaN(x) \/ Floor(x) < 0 \/ Floor(x) >= Width(v)
    \/ IsNaN(y) \/ Floor(y) < 0 \/ Floor(y) >= Height(v)

CUSTOM_ID_LIMIT == 100
\* Some button made from the state has a custom_id above the ceiling.
Overflows(v, state) ==
    \E i \in 1..4 :
        Len(Components(v, serializeGameState(v, state))[i].custom_id) > CUSTOM_ID_LIMIT

\* C11: when the token of the updated state, with an action prefix, exceeds
\* 100 characters, the handler answers with an error and no button, and no
\* answer carries a button whose custom_id is longer than 100 characters.
C11_EncodeOverflowIsFatal ==
    /\ (req.custom_id # "" /\ st # NoValue /\ Overflows(variant, st)) =>
            (resp.type = 4 /\ resp.components = <<>>)
    /\ "components" \in DOMAIN resp =>
            \A i \in 1..Len(resp.components) :
                Len(resp.components[i].custom_id) <= CUSTOM_ID_LIMIT

\* C10: every button made from a reachable state has a custom_id of at most
\* 100 characters, the longest action prefix included.
C10_TokenLengthCeiling ==
    \A i \in 1..4 : Len(Components(variant, tok)[i].custom_id) <= CUSTOM_ID_LIMIT
\* The worst case of the doom token: two-digit x of the player and of both
\* enemies, both active, a timestamp of 13 digits.
C10_Witness ==
    /\ variant = "doom" /\ act # ""
    /\ st.px >= 10 * U
    /\ \A i \in 1..Len(st.enemies) : st.enemies[i].isActive /\ st.enemies[i].x >= 10 * U
    /\ Len(TimeToString(st.lastInteractionTime)) = 13
    /\ Len(tok) = 70

M_WIN_MESSAGE == "You reached the Red Cuboid's starting point after it moved! YOU WIN!"
M_IsWon(state) == state.gameOver /\ state.message = M_WIN_MESSAGE
MaxSearch == 22                     \* turns of the search for a won game

\* What one press on the game message carrying token can return: every
\* button, the warning drawn or not (the emoji drawn changes no move: the
\* first one stands for all).
M_Pressed(token, currentGameState, a) ==
    { M_updateGameState(currentGameState, a, T0, rnd, 0) : rnd \in M_Draws(token, a) }
M_Outcomes(token) ==
    UNION { M_Pressed(token, M_deserializeGameState(token), a) : a \in M_ACTIONS }
M_PlayOn(tokens) == UNION { M_Outcomes(token) : token \in tokens }
M_NextTokens(outcomes) ==
    { M_serializeGameState(state) : state \in { o \in outcomes : ~o.gameOver } }
\* Some sequence of at most n presses starting on one of the messages in
\* frontier ends in the won game; seen holds the tokens already played on.
RECURSIVE M_WinFound(_, _, _, _)
M_Winnable(seen, frontier, n) ==
    M_WinFound(seen, frontier, M_PlayOn(frontier), n)
M_WinFound(seen, frontier, outcomes, n) ==
    IF \E o \in outcomes : M_IsWon(o) THEN TRUE
    ELSE IF n <= 1 \/ frontier = {} THEN FALSE
    ELSE M_Winnable(seen \cup frontier, M_NextTokens(outcomes) \ (seen \cup frontier), n - 1)

\* C12: from the first message of the maze game some sequence of button
\* presses (turn_left, turn_right, move_forward, react_blue_cuboid) ends in
\* the won game.
C12_WonReachable ==
    (variant = "maze" /\ turns = 0) => M_Winnable({}, {tok}, MaxSearch)

\* The state of a doom turn when the enemy AI begins, and after the AI step
\* of each enemy up to the i-th.
D_AtAI(i) ==
    D_EnemyAIUpTo(D_PlayerStep([prev EXCEPT !.message = "", !.lastInteractionTime = now], act),
                  1, i)
\* Enemy i stands in contact with the player in state b, its AI step due.
D_InContact(b, i) ==
    /\ b.enemies[i].isActive /\ ~b.gameOver
    /\ Dist(b.px - b.enemies[i].x, b.py - b.enemies[i].y) < D_CONTACT_RANGE
\* The AI step of enemy i from b to a was an attack: one point of health,
\* the enemy where it was; at health 0 the game is over and the returned
\* state has the health and the enemies of a.
D_Attacked(b, a, i) ==
    /\ a.php = b.php - 1
    /\ a.enemies = b.enemies
    /\ a.gameOver = (a.php <= 0)
    /\ a.gameOver => (st.gameOver /\ st.php = a.php /\ st.enemies = a.enemies
                      /\ st.message = "You died! Game Over.")
D_LiveTurn == variant = "doom" /\ act # "" /\ ~prev.gameOver /\ prev.php > 0

\* C13: in a doom turn an active enemy in contact with the player at its AI
\* step takes exactly one point of health and does not move; if health
\* reaches 0 the game is over in that turn and the enemies after it neither
\* move nor attack.
C13_ContactDamageAndLost ==
    D_LiveTurn =>
        \A i \in 1..D_NUM_ENEMIES :
            D_InContact(D_AtAI(i - 1), i) => D_Attacked(D_AtAI(i - 1), D_AtAI(i), i)
\* The player died of the attack of the first enemy while the second, alive,
\* stood in contact too.
C13_Witness ==
    /\ D_LiveTurn
    /\ D_InContact(D_AtAI(0), 1)
    /\ st.gameOver /\ st.php = 0
    /\ st.enemies[2].isActive
    /\ Dist(st.px - st.enemies[2].x, st.py - st.enemies[2].y) < D_CONTACT_RANGE

\* The state of a doom turn when the shoot step begins.
D_BeforeShot ==
    D_ApplyMovement(D_ApplyTurning(D_ApplyToggle(
        [prev EXCEPT !.message = "", !.lastInteractionTime = now], act)))

\* C14: in a doom turn on shoot, every enemy that is active, nearer than
\* SHOOT_RANGE and within the angular tolerance of the facing loses exactly
\* SHOOT_DAMAGE hp and is inactive if that leaves no hp; every other enemy
\* keeps its hp and its active flag.
C14_ShootEffect ==
    (D_LiveTurn /\ act = "shoot") =>
        \A i \in 1..Len(prev.enemies) :
            IF D_ShotHits(D_BeforeShot, prev.enemies[i])
            THEN /\ st.enemies[i].hp = prev.enemies[i].hp - D_SHOOT_DAMAGE
                 /\ st.enemies[i].isActive = (st.enemies[i].hp > 0)
            ELSE /\ st.enemies[i].hp = prev.enemies[i].hp
                 /\ st.enemies[i].isActive = prev.enemies[i].isActive
\* A shot that takes the last hp of one enemy and misses the other, alive.
C14_Witness ==
    /\ D_LiveTurn /\ act = "shoot"
    /\ \E i, j \in 1..D_NUM_ENEMIES :
          /\ D_ShotHits(D_BeforeShot, prev.enemies[i])
          /\ st.enemies[i].hp = 0 /\ ~st.enemies[i].isActive
          /\ prev.enemies[j].isActive /\ ~D_ShotHits(D_BeforeShot, prev.enemies[j])
          /\ st.enemies[j].isActive

D_WIN_MESSAGE == "All enemies defeated! You WIN!"
D_AllDown(state) == \A i \in 1..Len(state.enemies) : ~state.enemies[i].isActive

\* C15: a doom turn on a game that is not over which ends with every enemy
\* inactive and the player alive returns a finished game with the win
\* message, and the win message is returned only with every enemy inactive.
C15_AllEnemiesDownIsWon ==
    (variant = "doom" /\ act # "" /\ ~prev.gameOver) =>
        /\ (D_AllDown(st) /\ st.php > 0) => (st.gameOver /\ st.message = D_WIN_MESSAGE)
        /\ st.message = D_WIN_MESSAGE => (D_AllDown(st) /\ st.gameOver)
\* The shot that takes the last hp of the last enemy wins the game.
C15_Witness ==
    /\ variant = "doom" /\ act = "shoot" /\ ~prev.gameOver
    /\ ~D_AllDown(prev) /\ D_AllDown(st)
    /\ st.gameOver /\ st.message = D_WIN_MESSAGE

\* The horror maze: the update before which the health was below the damage
\* of a bump and after which the player has collapsed.
H_Collapsed ==
    /\ variant = "horror" /\ act # "" /\ ~prev.gameOver /\ st.gameOver
    /\ prev.health < prev.wallBumpDamage + prev.sprintBumpDamage

\* C16: health is never negative.  In every state a game reaches, the
\* health of the doom player and the hp of every doom enemy are at least 0,
\* and in the horror maze the health lies between 0 and maxHealth and the
\* stamina between 0 and maxStamina.
C16_HealthNeverNegative ==
    /\ variant = "doom" =>
          /\ st.php >= 0
          /\ \A i \in 1..Len(st.enemies) : st.enemies[i].hp >= 0
    /\ variant = "horror" =>
          /\ 0 <= st.health /\ st.health <= st.maxHealth
          /\ 0 <= st.stamina /\ st.stamina <= st.maxStamina
\* A bump that costs more health than is left: the player collapses at 0.
C16_Witness ==
    H_Collapsed /\ prev.health < H_BumpDamage(prev) /\ st.health = 0

\* The facing angle a game state stores.
StoredAngle == IF variant = "doom" THEN st.pa ELSE st.player.angle

\* C17: the facing angle stays normalized.  In every game, after any
\* sequence of presses from the first message, the stored facing angle
\* is at least 0 and below 2 pi.
C17_AngleNormalized == 0 <= StoredAngle /\ StoredAngle < TWO_PI

\* Slot i of the decoded state is slot i of the encoded one: its position
\* as the token writes it, its hp and its flag.
D_SameSlot(decoded, encoded) ==
    /\ decoded.x = parseFloat(toFixed(encoded.x, 2))
    /\ decoded.y = parseFloat(toFixed(encoded.y, 2))
    /\ decoded.hp = encoded.hp
    /\ decoded.isActive = encoded.isActive
D_SameSlots(decoded, encoded) ==
    /\ Len(decoded.enemies) = D_NUM_ENEMIES
    /\ \A i \in 1..D_NUM_ENEMIES : D_SameSlot(decoded.enemies[i], encoded.enemies[i])

\* C18: fixed enemy cardinality.  The doom state has exactly two enemy
\* slots at the start and after every updateGameState, the state a turn
\* decodes has two, and the decoder reads the token of a state back into
\* two slots, slot i from slot i.
C18_FixedEnemyCardinality ==
    variant = "doom" =>
        /\ Len(st.enemies) = D_NUM_ENEMIES
        /\ act # "" => Len(prev.enemies) = D_NUM_ENEMIES
        /\ D_deserializeGameState(tok) # NULL
        /\ D_SameSlots(D_deserializeGameState(tok), st)
\* A turn that leaves the two slots apart in every field.
C18_Witness ==
    /\ variant = "doom" /\ act # ""
    /\ st.enemies[1].isActive # st.enemies[2].isActive
    /\ st.enemies[1].hp # st.enemies[2].hp
    /\ toFixed(st.enemies[1].x, 2) # toFixed(st.enemies[2].x, 2)
    /\ D_SameSlots(D_deserializeGameState(tok), st)

\* The answer the press of request k gets when it is handled alone, at the
\* same clock and with the same draws.
Alone(k) ==
    IF variant = "doom" THEN D_HandleComponent(req[k].custom_id, resp[k].t)
    ELSE M_HandleComponent(req[k].custom_id, resp[k].t, resp[k].rnd, resp[k].idx)
AnsweredRequests == {k \in Requests : req[k].pc = "done"}
Decoded(k) ==
    IF variant = "doom" THEN D_deserializeGameState(req[k].token)
    ELSE M_deserializeGameState(req[k].token)

\* The handler recovers from the custom_id of request k the token its
\* button carries (it does for a button whose action name is one word).
Recovered(k) == ParseCustomId(req[k].custom_id).gameStateString = req[k].token

Rendered == fin # NoValue /\ fin.f = "render" /\ fout # NoValue /\ fout.drawn /\ fout.sprites # <<>>
SpriteOf(i) == IF variant = "doom" THEN fin.state.enemies[i] ELSE fin.state.redCuboid
EyeX == IF variant = "doom" THEN fin.state.px ELSE fin.state.player.x
EyeY == IF variant = "doom" THEN fin.state.py ELSE fin.state.player.y
EyeAngle == IF variant = "doom" THEN fin.state.pa ELSE fin.state.player.angle
SpriteDist(i) == Dist(SpriteOf(i).x - EyeX, SpriteOf(i).y - EyeY)
SpriteMiddle(i) ==
    ScreenX(Atan2(RelativeX(SpriteOf(i).x - EyeX, SpriteOf(i).y - EyeY, EyeAngle),
                  RelativeY(SpriteOf(i).x - EyeX, SpriteOf(i).y - EyeY, EyeAngle)))
\* A column within the spread of sprite i whose wall is no farther than
\* the enemy.
WallInFront(i, c) ==
    /\ Abs(c - SpriteMiddle(i)) <= SpriteSize(SpriteDist(i)) \div 4
    /\ fout.wallDistances[c + 1] <= SpriteDist(i) * 1000

\* C20: sprites never render through walls: in every rendered view, a
\* screen column holds the glyph of an enemy only if that enemy is active
\* and its distance is strictly less than the wall distance recorded for
\* that same column; this holds for every column of a sprite several
\* columns wide, in the doom game and for the red cuboid of the maze.
C20_SpritesBehindWalls ==
    Rendered =>
        \A i \in 1..Len(fout.sprites) : \A c \in fout.sprites[i] :
            /\ c \in Columns
            /\ SpriteOf(i).isActive
            /\ SpriteDist(i) * 1000 < fout.wallDistances[c + 1]
\* A doom enemy drawn in two or more columns and left out of a column of
\* its spread, where the wall is the nearer.
C20_Witness ==
    /\ Rendered /\ variant = "doom"
    /\ \E i \in 1..Len(fout.sprites) :
          /\ Cardinality(fout.sprites[i]) >= 2
          /\ \E c \in Columns : c \notin fout.sprites[i] /\ WallInFront(i, c)

\* The facing axis of a cardinal angle (within the tolerance the maze
\* itself uses for its moves): the unit vector, <<0, 0>> when the angle is
\* not cardinal.
FacingAxis(angle) ==
    IF M_Facing(angle, 0) \/ M_Facing(angle, TWO_PI) THEN <<1, 0>>
    ELSE IF M_Facing(angle, HALF_PI) THEN <<0, 1>>
    ELSE IF M_Facing(angle, PI) THEN <<-1, 0>>
    ELSE IF M_Facing(angle, 3 * HALF_PI) THEN <<0, -1>>
    ELSE <<0, 0>>
\* The forward and the lateral component of sprite i off the player, along
\* and across the facing axis.
Forward(i) ==
    (SpriteOf(i).x - EyeX) * FacingAxis(EyeAngle)[1] + (SpriteOf(i).y - EyeY) * FacingAxis(EyeAngle)[2]
Lateral(i) ==
    (SpriteOf(i).y - EyeY) * FacingAxis(EyeAngle)[1] - (SpriteOf(i).x - EyeX) * FacingAxis(EyeAngle)[2]
CentreColumn == VIEW_WIDTH_CHARS \div 2
StraightAhead(i) ==
    /\ SpriteOf(i).isActive /\ Forward(i) > 0 /\ Lateral(i) = 0
    /\ SpriteDist(i) < MAX_RAY_DEPTH
    /\ SpriteDist(i) * 1000 < fout.wallDistances[CentreColumn + 1]
ToTheSide(i) == SpriteOf(i).isActive /\ Forward(i) = 0 /\ Lateral(i) # 0

\* C21: an enemy straight ahead is drawn in the centre: facing one of the
\* four cardinal angles, an active enemy on the facing axis ahead of the
\* player, nearer than the maximum depth and nearer than the wall of the
\* centre column, is drawn on the centre screen column; an enemy exactly
\* to the side of the player is not drawn.
C21_AheadIsCentred ==
    (Rendered /\ FacingAxis(EyeAngle) # <<0, 0>>) =>
        \A i \in 1..Len(fout.sprites) :
            /\ StraightAhead(i) => CentreColumn \in fout.sprites[i]
            /\ ToTheSide(i) => fout.sprites[i] = {}

\* C22: Lost and Won are mutually exclusive in the horror maze: after any
\* sequence of actions no state has both gameOver and win set, the turn in
\* which a wall bump brings the health to 0 while the player's tile
\* becomes the exit tile included.
C22_LostWonExclusive == variant = "horror" => ~(st.gameOver /\ st.win)

\* A maze turn on react_blue_cuboid played on a game that is not finished.
M_Reacted == variant = "maze" /\ act = "react_blue_cuboid" /\ ~prev.gameOver
\* The blue cuboid neither counted down nor activated: a warning is
\* cleared, no warning stays none.
M_BlueAtRest ==
    IF prev.blueCuboid.warningActive
    THEN st.blueCuboid = [warningActive |-> FALSE, warningEmoji |-> "", turnsLeft |-> 0]
    ELSE st.blueCuboid = prev.blueCuboid

\* C23: react is a free action in the discrete maze: react_blue_cuboid
\* applied to a non-terminal state leaves the red cuboid's position
\* unchanged, runs neither the blue cuboid's countdown nor its activation,
\* and leaves the player's position and angle unchanged.
C23_ReactIsFree ==
    M_Reacted =>
        /\ st.redCuboid = prev.redCuboid
        /\ M_BlueAtRest
        /\ st.player = prev.player

\* C24: terminal states freeze the held keys of the horror maze: once
\* gameOver or win is set, a component interaction other than restart
\* changes no field of the game state; in particular a toggle action flips
\* no heldKeys flag.
C24_TerminalFreezesKeys ==
    (variant = "horror" /\ act \notin {"", "restart"} /\ (prev.gameOver \/ prev.win)) =>
        st = prev

\* The red cuboid's step seen from outside: where it stood, where the
\* player is, and where it stands after the step.
Chased == fin # NoValue /\ fin.f = "chase" /\ fout # NoValue
ChaseDx == fin.state.player.x - fin.state.redCuboid.x
ChaseDy == fin.state.player.y - fin.state.redCuboid.y
MovedX == fout.redCuboid.x - fin.state.redCuboid.x
MovedY == fout.redCuboid.y - fin.state.redCuboid.y
\* The tile next to the cuboid toward the player along x (along y) is
\* there to step on: the distance on that axis is not zero and the tile
\* is no wall.
OpenX ==
    ChaseDx # 0 /\ ~M_isWall(fin.state.redCuboid.x + Sign(ChaseDx) * U, fin.state.redCuboid.y)
OpenY ==
    ChaseDy # 0 /\ ~M_isWall(fin.state.redCuboid.x, fin.state.redCuboid.y + Sign(ChaseDy) * U)
StepsX == MovedX = Sign(ChaseDx) * U /\ MovedX # 0 /\ MovedY = 0
StepsY == MovedY = Sign(ChaseDy) * U /\ MovedY # 0 /\ MovedX = 0
StaysPut == MovedX = 0 /\ MovedY = 0

\* C25: the step rule of the red cuboid of the maze: when its AI runs, the
\* active cuboid moves at most one tile, along one axis, toward the
\* player; it tries the axis of the larger absolute distance first and,
\* if that step is blocked by a wall, the other axis (if its distance is
\* not zero); if both are blocked or both distances are zero it stays.
C25_StepRule ==
    Chased =>
        /\ StepsX \/ StepsY \/ StaysPut
        /\ [fout EXCEPT !.redCuboid = fin.state.redCuboid] = fin.state
        /\ (Abs(ChaseDx) > Abs(ChaseDy) /\ OpenX) => StepsX
        /\ (Abs(ChaseDx) > Abs(ChaseDy) /\ ~OpenX /\ OpenY) => StepsY
        /\ (Abs(ChaseDy) > Abs(ChaseDx) /\ OpenY) => StepsY
        /\ (Abs(ChaseDy) > Abs(ChaseDx) /\ ~OpenY /\ OpenX) => StepsX
        /\ (Abs(ChaseDx) = Abs(ChaseDy) /\ (OpenX \/ OpenY)) => (StepsX \/ StepsY)
        /\ (~OpenX /\ ~OpenY) => StaysPut
\* The player is farther off along x than along y, the tile toward the
\* player along x is a wall, and the cuboid has stepped along y.
C25_Witness ==
    /\ Chased /\ Abs(ChaseDx) > Abs(ChaseDy) /\ ChaseDy # 0
    /\ ~OpenX /\ StepsY

Max(a, b) == IF a > b THEN a ELSE b

\* C26: the red cuboid never retreats: for every placing of the player
\* and the cuboid on tile centres, one AI step increases neither |dx| nor
\* |dy|, hence not the Chebyshev distance max(|dx|, |dy|) either.
C26_NeverRetreats ==
    Chased =>
        /\ Abs(ChaseDx - MovedX) <= Abs(ChaseDx)
        /\ Abs(ChaseDy - MovedY) <= Abs(ChaseDy)
        /\ Max(Abs(ChaseDx - MovedX), Abs(ChaseDy - MovedY)) <= Max(Abs(ChaseDx), Abs(ChaseDy))
\* The player is off along x, walls keep the cuboid from the step toward
\* the player on either axis, the tile behind it along x is floor, and
\* the cuboid has stayed where it was.
C26_Witness ==
    /\ Chased /\ ChaseDx # 0 /\ ~OpenX /\ ~OpenY
    /\ ~M_isWall(fin.state.redCuboid.x - Sign(ChaseDx) * U, fin.state.redCuboid.y)
    /\ StaysPut

\* The state of a doom turn when the movement step begins, the position
\* the step asks for, and the turns in which the player moves forward.
D_BeforeMove ==
    D_ApplyTurning(D_ApplyToggle([prev EXCEPT !.message = "", !.lastInteractionTime = now], act))
D_NewX == D_BeforeMove.px + MulU(Cos(D_BeforeMove.pa), D_PLAYER_MOVE_SPEED)
D_NewY == D_BeforeMove.py + MulU(Sin(D_BeforeMove.pa), D_PLAYER_MOVE_SPEED)
D_MovingTurn == D_LiveTurn /\ D_BeforeMove.isMovingForward
\* The wall-sliding rule for an x candidate blocked or not (blockedX) and
\* a y candidate blocked or not (blockedY): a blocked coordinate stays, a
\* free one advances by its full component.
D_Slides(blockedX, blockedY) ==
    /\ st.px = (IF blockedX THEN D_BeforeMove.px ELSE D_NewX)
    /\ st.py = (IF blockedY THEN D_BeforeMove.py ELSE D_NewY)

\* C27: wall sliding in the doom game: when the player moves forward, the
\* move is split into an x-only and a y-only candidate from where the
\* player stands; if exactly one of them is blocked by a wall, the other
\* coordinate advances by its full component and the blocked one is
\* unchanged; if neither is blocked both advance, and if both are blocked
\* the position is unchanged.
C27_WallSliding ==
    D_MovingTurn =>
        D_Slides(D_isWall(D_NewX, D_BeforeMove.py), D_isWall(D_BeforeMove.px, D_NewY))
\* C27, amended: the y candidate is taken at the x coordinate the x step
\* has ended in (the new x if that step was accepted, the old x if not).
C27_WallSlidingInTurn ==
    D_MovingTurn =>
        D_Slides(D_isWall(D_NewX, D_BeforeMove.py), D_isWall(st.px, D_NewY))
\* The player walks past the corner of a wall: neither the x-only nor the
\* y-only candidate is in a wall, the tile diagonally ahead is; x has
\* advanced and y has not.
C27_Witness ==
    /\ D_MovingTurn
    /\ ~D_isWall(D_NewX, D_BeforeMove.py) /\ ~D_isWall(D_BeforeMove.px, D_NewY)
    /\ D_isWall(D_NewX, D_NewY)
    /\ st.px = D_NewX /\ st.px # D_BeforeMove.px /\ st.py = D_BeforeMove.py

\* A maze turn played on a game that is not finished, on a movement action.
M_MoveTurn == variant = "maze" /\ act \in M_playerMovementActions /\ ~prev.gameOver
M_TimedOut == st.gameOver /\ SubSeq(st.message, 1, 9) = "Too slow!"
M_NoWarning == [warningActive |-> FALSE, warningEmoji |-> "", turnsLeft |-> 0]

\* C28: the blue cuboid's countdown in the discrete maze: a warning that
\* activates sets turnsLeft to BLUE_CUBOID_REACTION_TURNS = 3; each later
\* movement action takes one off; the game ends by timeout on the action
\* that brings it to 0 and not before; react_blue_cuboid at any earlier
\* point clears warningActive, turnsLeft and the emoji, so that no timeout
\* follows; in every state that is not terminal, warningActive holds iff
\* 1 <= turnsLeft <= 3.
C28_BlueCountdown ==
    /\ (M_MoveTurn /\ ~prev.blueCuboid.warningActive) =>
            /\ ~M_TimedOut
            /\ \/ st.blueCuboid = prev.blueCuboid
               \/ /\ st.blueCuboid.warningActive
                  /\ st.blueCuboid.turnsLeft = M_BLUE_CUBOID_REACTION_TURNS
    /\ (M_MoveTurn /\ prev.blueCuboid.warningActive) =>
            /\ st.blueCuboid.turnsLeft = prev.blueCuboid.turnsLeft - 1
            /\ M_TimedOut <=> st.blueCuboid.turnsLeft = 0
    /\ M_Reacted => (st.blueCuboid = M_NoWarning /\ ~M_TimedOut)
    /\ (variant = "maze" /\ ~st.gameOver) =>
            (st.blueCuboid.warningActive
                <=> (1 <= st.blueCuboid.turnsLeft
                     /\ st.blueCuboid.turnsLeft <= M_BLUE_CUBOID_REACTION_TURNS))
\* The timeout: the third movement action after the warning, played from a
\* token with one turn left, has ended the game.
C28_Witness ==
    /\ M_MoveTurn /\ prev.blueCuboid.warningActive /\ prev.blueCuboid.turnsLeft = 1
    /\ M_TimedOut /\ st.blueCuboid.turnsLeft = 0

\* A button press whose token decoded to a game that is not finished, and
\* the time since the interaction the token records.
PressDecoded == req.custom_id # "" /\ prev # NoValue /\ prev # NULL /\ ~prev.gameOver
IdleFor == TimeDiff(now, prev.lastInteractionTime)
ExpiryNotice ==
    /\ resp.type = 7
    /\ resp.content = "This game session has expired due to inactivity."
    /\ resp.components = <<>>

\* C29: a button press whose decoded state is not terminal and whose
\* lastInteractionTime is more than 600000 ms before the current time does
\* not advance the game: updateGameState is not applied and the answer is
\* the expiry notice with no buttons; a press within the threshold is
\* advanced, and the token of its answer's buttons carries the current time.
C29_IdleExpiry ==
    PressDecoded =>
        IF IdleFor > EXPIRY_MS
        THEN st = NoValue /\ ExpiryNotice
        ELSE /\ st # NoValue /\ ~ExpiryNotice
             /\ st.lastInteractionTime = now
             /\ (resp.type = 7 /\ ~st.gameOver) => Len(resp.components) = 4
             /\ \A i \in 1..Len(resp.components) :
                    deserializeGameState(variant, resp.components[i].token).lastInteractionTime
                        = now
\* A press one millisecond past the limit has been refused.
C29_Witness ==
    /\ PressDecoded /\ IdleFor = EXPIRY_MS + 1
    /\ st = NoValue /\ ExpiryNotice

D_Toggles == {"toggle_forward", "toggle_turn_left", "toggle_turn_right"}
D_Flags(s) == <<s.isMovingForward, s.isTurningLeft, s.isTurningRight>>
\* The flags after action a on flags f: the flag of a toggle flipped.
D_Flipped(f, a) ==
    << IF a = "toggle_forward" THEN ~f[1] ELSE f[1],
       IF a = "toggle_turn_left" THEN ~f[2] ELSE f[2],
       IF a = "toggle_turn_right" THEN ~f[3] ELSE f[3] >>
\* A step that plays a doom turn, on a game that is not finished.
D_PlaysTurn == variant = "doom" /\ act' # "" /\ ~prev'.gameOver /\ prev'.php > 0
D_FlagsStep ==
    D_PlaysTurn =>
        /\ D_Flags(prev') = D_Flags(st)
        /\ D_Flags(st') = D_Flipped(D_Flags(prev'), act')
        /\ D_Flags(D_deserializeGameState(tok')) = D_Flags(st')
        /\ (D_LiveTurn /\ act' = act) => D_Flags(st') = D_Flags(prev)

\* C30: the movement-intent toggles of the doom game, in a turn of a game
\* that is not finished: toggle_forward, toggle_turn_left and
\* toggle_turn_right each flip their own flag and leave the other two as
\* they were; the same toggle twice in a row restores the flag; a flag
\* keeps its value across encode and decode (from the state of one turn to
\* the state the next turn decodes) and across every other action.
C30_Toggles == [][D_FlagsStep]_vars
\* toggle_turn_left pressed twice, with the other two flags held since
\* before: the left turn is off again, the others are still on.
C30_Witness ==
    /\ D_LiveTurn /\ act = "toggle_turn_left"
    /\ D_Flags(prev) = <<TRUE, TRUE, TRUE>>
    /\ D_Flags(st) = <<TRUE, FALSE, TRUE>>

----------------------------------------------------------------------------
(* updateGameState as a call on objects: the heap is a sequence of objects, *)
(* an address is an index into it, and a state is an object that holds the  *)
(* addresses of its parts (doom: the enemies array, that holds the          *)
(* addresses of the enemies; maze: player, redCuboid and blueCuboid).       *)

MaxCalls == 2                       \* calls in a run

\* The object graph of a state value, put at the end of the heap: the parts
\* first, the state object last.
D_Alloc(heap, s) ==
    heap \o [i \in 1..Len(s.enemies) |-> s.enemies[i]]
         \o << [items |-> [i \in 1..Len(s.enemies) |-> Len(heap) + i]] >>
         \o << [s EXCEPT !.enemies = Len(heap) + Len(s.enemies) + 1] >>
M_Alloc(heap, s) ==
    heap \o << s.player, s.redCuboid, s.blueCuboid >>
         \o << [s EXCEPT !.player = Len(heap) + 1, !.redCuboid = Len(heap) + 2,
                         !.blueCuboid = Len(heap) + 3] >>
\* The value of the state at address r.
D_Deref(heap, r) ==
    [heap[r] EXCEPT !.enemies = [i \in 1..Len(heap[heap[r].enemies].items) |->
                                    heap[heap[heap[r].enemies].items[i]]]]
M_Deref(heap, r) ==
    [heap[r] EXCEPT !.player = heap[heap[r].player],
                    !.redCuboid = heap[heap[r].redCuboid],
                    !.blueCuboid = heap[heap[r].blueCuboid]]
Deref(v, heap, r) == IF v = "doom" THEN D_Deref(heap, r) ELSE M_Deref(heap, r)
\* The addresses of the objects of the state at r.
Parts(v, heap, r) ==
    IF v = "doom"
    THEN {r, heap[r].enemies}
         \cup { heap[heap[r].enemies].items[i] : i \in 1..Len(heap[heap[r].enemies].items) }
    ELSE {r, heap[r].player, heap[r].redCuboid, heap[r].blueCuboid}

\* JSON.stringify writes NaN as null, and JSON.parse reads null back.
JsonNumber(x) == IF IsNaN(x) THEN NULL ELSE x
JsonTime(t) == IF IsNaNTime(t) THEN NULL ELSE t
D_Json(s) ==
    [s EXCEPT !.px = JsonNumber(s.px), !.py = JsonNumber(s.py), !.pa = JsonNumber(s.pa),
              !.php = JsonNumber(s.php),
              !.enemies = [i \in 1..Len(s.enemies) |->
                             [s.enemies[i] EXCEPT !.x = JsonNumber(s.enemies[i].x),
                                                  !.y = JsonNumber(s.enemies[i].y),
                                                  !.hp = JsonNumber(s.enemies[i].hp)]],
              !.lastInteractionTime = JsonTime(s.lastInteractionTime)]
M_Json(s) ==
    [s EXCEPT !.player = [x |-> JsonNumber(s.player.x), y |-> JsonNumber(s.player.y),
                          angle |-> JsonNumber(s.player.angle)],
              !.redCuboid.x = JsonNumber(s.redCuboid.x),
              !.redCuboid.y = JsonNumber(s.redCuboid.y),
              !.blueCuboid.turnsLeft = JsonNumber(s.blueCuboid.turnsLeft),
              !.lastInteractionTime = JsonTime(s.lastInteractionTime)]
\* A faulty copy, to test that the properties below notice it: a new state
\* object that holds the parts of the old one.
JsonCopy_Shallow(v, heap, r) == Append(heap, heap[r])
\* JSON.parse(JSON.stringify(currentState)): the heap with the copy at its
\* end, every object of it new.
JsonCopy(v, heap, r) ==
    IF v = "doom" THEN D_Alloc(heap, D_Json(D_Deref(heap, r)))
    ELSE M_Alloc(heap, M_Json(M_Deref(heap, r)))

\* The assignments of updateGameState: all of them are to fields of newState
\* and of the objects it holds, and they leave them with the values of s.
D_Assign(heap, r, s) ==
    LET items == heap[heap[r].enemies].items
    IN [a \in 1..Len(heap) |->
          IF a = r THEN [s EXCEPT !.enemies = heap[r].enemies]
          ELSE IF \E i \in 1..Len(items) : items[i] = a
          THEN s.enemies[CHOOSE i \in 1..Len(items) : items[i] = a]
          ELSE heap[a]]
M_Assign(heap, r, s) ==
    [a \in 1..Len(heap) |->
        IF a = r THEN [s EXCEPT !.player = heap[r].player, !.redCuboid = heap[r].redCuboid,
                                !.blueCuboid = heap[r].blueCuboid]
        ELSE IF a = heap[r].player THEN s.player
        ELSE IF a = heap[r].redCuboid THEN s.redCuboid
        ELSE IF a = heap[r].blueCuboid THEN s.blueCuboid
        ELSE heap[a]]

\* The states updateGameState is called on are those the decoder returns:
\* the first state, a player one tile from an enemy and facing it, a warned
\* maze player, and a token whose time does not parse.
D_CallTokens ==
    { D_serializeGameState(D_getInitialGameState(T0)),
      "12.50|2.50|0.000|5|0|0|0|13.50|2.50|3|1|7.50|6.50|3|1|0|1700000000000",
      "12.50|2.50|0.000|5|1|0|0|13.50|2.50|1|1|7.50|6.50|3|1|0|x" }
M_CallTokens ==
    { M_serializeGameState(M_getInitialGameState(T0)),
      M_serializeGameState([M_getInitialGameState(T0) EXCEPT
                              !.blueCuboid = [warningActive |-> TRUE,
                                              warningEmoji |-> "<1F355>",
                                              turnsLeft |-> 1]]),
      "1.5|1.5|1.571|10.5|4.5|1|0||0|0|x" }
CallStates(v) ==
    IF v = "doom" THEN { D_deserializeGameState(s) : s \in D_CallTokens }
    ELSE { M_deserializeGameState(s) : s \in M_CallTokens }
\* The addresses of the state objects of the heap.
StateRefs(heap) == { r \in 1..Len(heap) : "gameOver" \in DOMAIN heap[r] }

InitCall ==
    /\ variant \in Variants
    /\ \E s \in CallStates(variant) :
          st = IF variant = "doom" THEN D_Alloc(<<>>, s) ELSE M_Alloc(<<>>, s)
    /\ prev = NoValue /\ fin = NoValue /\ fout = NoValue
    /\ tok = "" /\ act = "" /\ now = T0 /\ turns = 0 /\ origin = "" /\ plan = ""
    /\ req = NoPress /\ resp = NoResponse

\* The heap after updateGameState(currentState, action) at time t, the
\* returned state being the object at its end.
Updated(v, copied, action, t, draw) ==
    IF v = "doom"
    THEN D_Assign(copied, Len(copied),
                  D_updateGameState(D_Deref(copied, Len(copied)), action, t))
    ELSE M_Assign(copied, Len(copied),
                  M_updateGameState(M_Deref(copied, Len(copied)), action, t,
                                    draw[1], draw[2]))
\* A call of updateGameState on a state of the heap.
UpdateCall ==
    /\ turns < MaxCalls
    /\ \E currentState \in StateRefs(st), draw \in Draws,
          action \in (IF variant = "doom" THEN D_ACTIONS ELSE M_ACTIONS) :
          /\ st' = Updated(variant, JsonCopy(variant, st, currentState), action,
                           TimeAdd(now, TickMs), draw)
          /\ fin' = [f |-> "update", currentState |-> currentState, action |-> action]
          /\ act' = action
    /\ fout' = [returned |-> Len(st')]
    /\ prev' = st
    /\ now' = TimeAdd(now, TickMs)
    /\ turns' = turns + 1
    /\ UNCHANGED <<variant, tok, origin, plan, req, resp>>

NextCall == UpdateCall

SpecCall == InitCall /\ [][NextCall]_vars

\* C31: updateGameState does not change the state passed to it: after the
\* call every object of the input state, each element of its enemies array
\* included, holds what it held before, and no object of the returned state
\* is an object of the input state.
C31_ValueSemantics ==
    fout # NoValue =>
        /\ \A a \in Parts(variant, prev, fin.currentState) : st[a] = prev[a]
        /\ Parts(variant, st, fout.returned) \cap Parts(variant, prev, fin.currentState) = {}
\* A shot has hit an enemy that then walked up to the player: the enemy of
\* the returned state has changed, the enemy of the state passed in has not.
C31_Witness ==
    /\ fout # NoValue /\ variant = "doom" /\ act = "shoot"
    /\ D_Deref(st, fout.returned).enemies[1].hp
         = D_Deref(prev, fin.currentState).enemies[1].hp - 1
    /\ D_Deref(st, fout.returned).enemies[1].x # D_Deref(prev, fin.currentState).enemies[1].x
    /\ D_Deref(st, fin.currentState).enemies[1] = D_Deref(prev, fin.currentState).enemies[1]

\* A view whose rays have been cast, and the offset of the ray of column
\* col from the facing angle.
RaysCast == fin # NoValue /\ fin.f = "render" /\ fout # NoValue /\ fout # NoView
RayOffset(col) == RayAngle(EyeAngle, col) - EyeAngle
\* The distance to the wall along the facing angle itself.
AxisDistance ==
    CorrectedDist(CastRay(variant, EyeX, EyeY, Cos(EyeAngle), Sin(EyeAngle)), U)

\* C32: the rays are centred on the facing angle: the ray of the centre
\* column, (W - 1) / 2 for the odd width W = VIEW_WIDTH_CHARS, runs along
\* the facing angle (offset 0, fish-eye factor 1, so that its corrected
\* distance is the distance along the facing angle), and the offsets of
\* columns c and W - 1 - c are opposite, to the last digit kept.
C32_RaysCentred ==
    RaysCast =>
        /\ VIEW_WIDTH_CHARS % 2 = 1
        /\ Abs(RayOffset(CentreColumn)) <= 1
        /\ Cos(RayOffset(CentreColumn)) = U
        /\ fout.wallDistances[CentreColumn + 1] = AxisDistance
        /\ \A c \in Columns : Abs(RayOffset(c) + RayOffset(VIEW_WIDTH_CHARS - 1 - c)) <= 1

D_ELIMINATED_MESSAGE == "Enemy eliminated!"
\* The shot of this turn takes the last hp of enemy i.
D_Eliminates(i) ==
    /\ D_LiveTurn /\ act = "shoot"
    /\ D_ShotHits(D_BeforeShot, prev.enemies[i])
    /\ prev.enemies[i].hp - D_SHOOT_DAMAGE <= 0
\* The same shot hits an enemy later in the array and leaves it alive.
D_HitsAfter(i) ==
    \E j \in (i + 1)..Len(prev.enemies) :
        /\ D_ShotHits(D_BeforeShot, prev.enemies[j])
        /\ prev.enemies[j].hp - D_SHOOT_DAMAGE > 0
\* The steps after the shoot step that write the message: the contact
\* attack of an enemy, and the win.
D_WasAttacked == st.php < prev.php
D_HasWon == D_AllDown(st) /\ st.php > 0

\* C33: whenever the shot of a doom turn takes an enemy's hp to 0, the
\* state returned for the turn has that enemy inactive and its message is
\* the 'Enemy eliminated!' message.
C33_EliminatedMessage ==
    \A i \in 1..D_NUM_ENEMIES :
        D_Eliminates(i) => (~st.enemies[i].isActive /\ st.message = D_ELIMINATED_MESSAGE)

\* C33, amended: whenever the shot of a doom turn takes an enemy's hp to 0,
\* the state returned for the turn has that enemy inactive, and its message
\* is the 'Enemy eliminated!' message unless a later write of the same turn
\* has replaced it: the hit of the same shot on an enemy later in the
\* array, the contact attack of another enemy, or the win; with none of
\* these the message is the 'Enemy eliminated!' message.
C33_EliminatedUnlessReplaced ==
    \A i \in 1..D_NUM_ENEMIES :
        D_Eliminates(i) =>
            /\ ~st.enemies[i].isActive
            /\ IF D_HasWon THEN st.message = D_WIN_MESSAGE
               ELSE IF D_WasAttacked
               THEN SubSeq(st.message, 1, 5) = "Ouch!" \/ st.message = "You died! Game Over."
               ELSE IF D_HitsAfter(i) THEN SubSeq(st.message, 1, 10) = "Hit enemy!"
               ELSE st.message = D_ELIMINATED_MESSAGE
\* The shot has taken the last hp of one enemy while the other, alive,
\* stood out of reach of the player: the message of the kill is returned.
C33_Witness ==
    \E i \in 1..D_NUM_ENEMIES :
        /\ D_Eliminates(i) /\ ~D_HasWon /\ ~D_WasAttacked
        /\ st.message = D_ELIMINATED_MESSAGE

----------------------------------------------------------------------------
(* The ray loops of the renderers, one iteration at a time: the loop in     *)
(* steps of 0.1 of renderGameView (doom and discrete maze) and the grid     *)
(* walk of renderMazeView (horror maze).  A ray is that of one screen       *)
(* column for a player at (x, y) facing pa.                                 *)

Renderers == {"doom", "maze", "horror"}
H_MAZE_VIEW_WIDTH == 28
H_MAZE_VIEW_HEIGHT == 14
H_MAZE_MAX_VIEW_DISTANCE == 10000   \* 10 tiles, in thousandths
H_MAZE_CEILING == "<1F311>"
H_MAZE_WALL_FAR == "<2B1B>"
H_MAZE_FLOOR_FAR == "<2B1B>"
H_MAZE_FLOOR_MID == "<1F7EB>"
H_MAZE_FLOOR_CLOSE == "<1F7E9>"

\* Where the player stands and looks: the first state of each game, a place
\* in the open and a place outside the map (doom), and for the horror maze
\* the corner of the long corridor, looking along its diagonal.
RayEyes(v) ==
    IF v = "doom"
    THEN { [x |-> U + U \div 2, y |-> U + U \div 2, pa |-> QUARTER_PI],
           [x |-> 8 * U + U \div 2, y |-> 7 * U + U \div 2, pa |-> 0],
           [x |-> 0 - 3 * U, y |-> 5 * U + U \div 2, pa |-> 0] }
    ELSE IF v = "maze"
    THEN { [x |-> M_getInitialGameState(T0).player.x,
            y |-> M_getInitialGameState(T0).player.y, pa |-> HALF_PI],
           [x |-> M_getInitialGameState(T0).player.x,
            y |-> M_getInitialGameState(T0).player.y, pa |-> 0] }
    ELSE { [x |-> U + U \div 2, y |-> U + U \div 2, pa |-> QUARTER_PI],
           [x |-> U + 10000, y |-> 7 * U + 10000, pa |-> 96900] }
RayColumns(v) == IF v = "horror" THEN 0..(H_MAZE_VIEW_WIDTH - 1) ELSE Columns

\* rayDirX and rayDirY of column x for the player at eye: dir and plane are
\* those initialMazePlayerState makes for the angle.
H_CameraX(x) == (2 * x * U) \div H_MAZE_VIEW_WIDTH - U
H_RayDirX(eye, x) ==
    Cos(eye.pa) + MulU(MulU(Cos(eye.pa + HALF_PI), H_PLANE), H_CameraX(x))
H_RayDirY(eye, x) ==
    Sin(eye.pa) + MulU(MulU(Sin(eye.pa + HALF_PI), H_PLANE), H_CameraX(x))
\* Math.abs(1 / rayDir), in thousandths of a tile; Infinity for 0.
H_DeltaDist(rayDir) ==
    IF rayDir = 0 THEN INFINITY
    ELSE IF Abs(rayDir) < 1000 THEN 1000000   \* cut to 1000 tiles, beyond the map
    ELSE 1000000000 \div Abs(rayDir)
\* part * deltaDist for part of a tile in millionths.
H_SideDist(part, deltaDist) ==
    IF deltaDist = INFINITY THEN INFINITY ELSE ((part \div 1000) * deltaDist) \div 1000
H_AddDist(sideDist, deltaDist) ==
    IF sideDist = INFINITY \/ deltaDist = INFINITY THEN INFINITY ELSE sideDist + deltaDist
\* (cell - at + (1 - step) / 2) / rayDir, in thousandths of a tile.
H_PerpDist(cell, at, step, rayDir) ==
    LET num == cell * U - at + ((1 - step) \div 2) * U
    IN IF rayDir \div 10 = 0 THEN (IF num = 0 THEN NaN ELSE INFINITY)
       ELSE Sign(num) * Sign(rayDir) * (((Abs(num) \div 100) * 10000) \div (Abs(rayDir) \div 10))
H_PerpAt(l, eye) ==
    IF l.side = 0 THEN H_PerpDist(l.mapX, eye.x, l.stepX, l.rayDirX)
    ELSE H_PerpDist(l.mapY, eye.y, l.stepY, l.rayDirY)
H_OutOfMap(mapX, mapY) ==
    \/ mapX < 0 \/ mapX >= Len(H_initialMazeMapData[1])
    \/ mapY < 0 \/ mapY >= Len(H_initialMazeMapData)

\* The variables of the ray loop as the loop begins.
D_RayStart(eye, rayAngle) ==
    [pc |-> "loop", distToWall |-> 0, hitWall |-> FALSE, column |-> <<>>,
     eyeX |-> Cos(rayAngle), eyeY |-> Sin(rayAngle), fishEye |-> Cos(rayAngle - eye.pa)]
H_RayStart(eye, x) ==
    [pc |-> "loop", hit |-> 0, side |-> 0, left |-> FALSE,
     rayDirX |-> H_RayDirX(eye, x), rayDirY |-> H_RayDirY(eye, x),
     deltaDistX |-> H_DeltaDist(H_RayDirX(eye, x)),
     deltaDistY |-> H_DeltaDist(H_RayDirY(eye, x)),
     mapX |-> Floor(eye.x), mapY |-> Floor(eye.y),
     stepX |-> IF H_RayDirX(eye, x) < 0 THEN 0 - 1 ELSE 1,
     stepY |-> IF H_RayDirY(eye, x) < 0 THEN 0 - 1 ELSE 1,
     sideDistX |-> H_SideDist(IF H_RayDirX(eye, x) < 0 THEN eye.x - Floor(eye.x) * U
                              ELSE (Floor(eye.x) + 1) * U - eye.x,
                              H_DeltaDist(H_RayDirX(eye, x))),
     sideDistY |-> H_SideDist(IF H_RayDirY(eye, x) < 0 THEN eye.y - Floor(eye.y) * U
                              ELSE (Floor(eye.y) + 1) * U - eye.y,
                              H_DeltaDist(H_RayDirY(eye, x))),
     column |-> <<>>]

\* The rows of a column of renderGameView: the wall between drawStart and
\* drawEnd for a corrected distance in millionths, or sky over floor.
D_WallColumn(correctedDist) ==
    LET lineHeight == IF (VIEW_HEIGHT_CHARS * U) \div (correctedDist + 1000) < 1 THEN 1
                      ELSE (VIEW_HEIGHT_CHARS * U) \div (correctedDist + 1000)
        drawStart == IF (VIEW_HEIGHT_CHARS - lineHeight) \div 2 < 0 THEN 0
                     ELSE (VIEW_HEIGHT_CHARS - lineHeight) \div 2
        drawEnd == IF (VIEW_HEIGHT_CHARS + lineHeight) \div 2 > VIEW_HEIGHT_CHARS - 1
                   THEN VIEW_HEIGHT_CHARS - 1
                   ELSE (VIEW_HEIGHT_CHARS + lineHeight) \div 2
    IN [row \in 1..VIEW_HEIGHT_CHARS |->
          IF row - 1 < drawStart THEN "EMOJI_CEILING"
          ELSE IF row - 1 <= drawEnd THEN "EMOJI_WALL"
          ELSE "EMOJI_FLOOR"]
D_OpenColumn ==
    [row \in 1..VIEW_HEIGHT_CHARS |->
        IF 2 * (row - 1) < VIEW_HEIGHT_CHARS THEN "EMOJI_CEILING" ELSE "EMOJI_FLOOR"]

\* A faulty iteration, to test that the properties below notice it: the ray
\* is tested where it stands and never advances.
D_RayBody_Stands(l, v, eye) ==
    IF WallAtStep(v, eye.x, eye.y, l.eyeX, l.eyeY, l.distToWall)
    THEN [l EXCEPT !.hitWall = TRUE,
                   !.column = D_WallColumn(CorrectedDist(l.distToWall, l.fishEye))]
    ELSE l
\* The body of the while loop: a step of 0.1 along the ray, and the column
\* when the point reached is in a wall.  distToWall counts the steps.
D_RayBody(l, v, eye) ==
    IF WallAtStep(v, eye.x, eye.y, l.eyeX, l.eyeY, l.distToWall + 1)
    THEN [l EXCEPT !.distToWall = l.distToWall + 1, !.hitWall = TRUE,
                   !.column = D_WallColumn(CorrectedDist(l.distToWall + 1, l.fishEye))]
    ELSE [l EXCEPT !.distToWall = l.distToWall + 1]
\* while (!hitWall && distToWall < MAX_RAY_DEPTH)
D_RayGoesOn(l) == ~l.hitWall /\ l.distToWall * 100 < MAX_RAY_DEPTH

\* The body of while (hit === 0): one cell further along x or y; the walk
\* ends on leaving the map (left), on a cell that blocks, and beyond
\* MAZE_MAX_VIEW_DISTANCE.
H_Walked(l) ==
    IF l.sideDistX # INFINITY /\ (l.sideDistY = INFINITY \/ l.sideDistX < l.sideDistY)
    THEN [l EXCEPT !.sideDistX = H_AddDist(l.sideDistX, l.deltaDistX),
                   !.mapX = l.mapX + l.stepX, !.side = 0]
    ELSE [l EXCEPT !.sideDistY = H_AddDist(l.sideDistY, l.deltaDistY),
                   !.mapY = l.mapY + l.stepY, !.side = 1]
H_Tested(l, eye) ==
    IF H_OutOfMap(l.mapX, l.mapY) THEN [l EXCEPT !.hit = 1, !.left = TRUE]
    ELSE IF H_Blocked(l.mapY, l.mapX) \/ (~IsNaN(H_PerpAt(l, eye))
                                          /\ H_PerpAt(l, eye) > H_MAZE_MAX_VIEW_DISTANCE)
    THEN [l EXCEPT !.hit = 1]
    ELSE l
H_RayBody(l, eye) == H_Tested(H_Walked(l), eye)

\* The column of renderMazeView for a wall at perpWallDist, in thousandths.
H_FloorAt(y) ==
    IF 6 * (2 * y - H_MAZE_VIEW_HEIGHT) < H_MAZE_VIEW_HEIGHT THEN H_MAZE_FLOOR_FAR
    ELSE IF 3 * (2 * y - H_MAZE_VIEW_HEIGHT) < H_MAZE_VIEW_HEIGHT THEN H_MAZE_FLOOR_MID
    ELSE H_MAZE_FLOOR_CLOSE
H_WallColor(perpWallDist, side, cell) ==
    IF cell = H_MAZE_EXIT_TILE /\ perpWallDist < 1500 THEN "<1F31F>"
    ELSE IF 100 * perpWallDist >= 85 * H_MAZE_MAX_VIEW_DISTANCE THEN H_MAZE_WALL_FAR
    ELSE IF 2 * perpWallDist > H_MAZE_MAX_VIEW_DISTANCE
    THEN (IF side = 0 THEN "<1F539>" ELSE "<2666><FE0F>")
    ELSE (IF side = 0 THEN "<1F7E6>" ELSE "<1F7E5>")
H_Column(perpWallDist, side, cell) ==
    LET lineHeight == (H_MAZE_VIEW_HEIGHT * 1000) \div perpWallDist
    IN [row \in 1..H_MAZE_VIEW_HEIGHT |->
          IF 2 * (row - 1) < H_MAZE_VIEW_HEIGHT - lineHeight THEN H_MAZE_CEILING
          ELSE IF 2 * (row - 1) <= H_MAZE_VIEW_HEIGHT + lineHeight
          THEN H_WallColor(perpWallDist, side, cell)
          ELSE H_FloorAt(row - 1)]
\* perpWallDist after the loop: Math.max(0.1, ...) of the distance of the
\* last cell, whatever the loop has set.
H_PerpWallDist(l, eye) ==
    IF IsNaN(H_PerpAt(l, eye)) THEN NaN
    ELSE IF H_PerpAt(l, eye) < 100 THEN 100 ELSE H_PerpAt(l, eye)
H_RayColumn(l, eye) ==
    H_Column(H_PerpWallDist(l, eye), l.side, H_Cell(l.mapY, l.mapX))

InitRays ==
    /\ variant \in Renderers
    /\ \E eye \in RayEyes(variant), col \in RayColumns(variant) :
          /\ fin = [f |-> "ray", eye |-> eye, col |-> col]
          /\ fout = IF variant = "horror" THEN H_RayStart(eye, col)
                   ELSE D_RayStart(eye, RayAngle(eye.pa, col))
    /\ tok = "" /\ st = NoValue /\ prev = NoValue /\ act = ""
    /\ now = T0 /\ turns = 0 /\ origin = "" /\ plan = ""
    /\ req = NoPress /\ resp = NoResponse

\* An iteration of the loop in steps of 0.1.
RayStep ==
    /\ variant # "horror" /\ fout.pc = "loop" /\ D_RayGoesOn(fout)
    /\ fout' = D_RayBody(fout, variant, fin.eye)
    /\ UNCHANGED <<variant, tok, st, prev, act, now, turns, origin, plan, fin, req, resp>>
\* The loop is left; a ray that met no wall leaves sky over floor.
RayEnd ==
    /\ variant # "horror" /\ fout.pc = "loop" /\ ~D_RayGoesOn(fout)
    /\ fout' = [fout EXCEPT !.pc = "done",
                            !.column = IF fout.hitWall THEN fout.column ELSE D_OpenColumn]
    /\ UNCHANGED <<variant, tok, st, prev, act, now, turns, origin, plan, fin, req, resp>>
\* An iteration of the grid walk.
GridStep ==
    /\ variant = "horror" /\ fout.pc = "loop" /\ fout.hit = 0
    /\ fout' = H_RayBody(fout, fin.eye)
    /\ UNCHANGED <<variant, tok, st, prev, act, now, turns, origin, plan, fin, req, resp>>
\* The grid walk is left and the column drawn.
GridEnd ==
    /\ variant = "horror" /\ fout.pc = "loop" /\ fout.hit # 0
    /\ fout' = [fout EXCEPT !.pc = "done", !.column = H_RayColumn(fout, fin.eye)]
    /\ UNCHANGED <<variant, tok, st, prev, act, now, turns, origin, plan, fin, req, resp>>

NextRays == RayStep \/ RayEnd \/ GridStep \/ GridEnd

SpecRays == InitRays /\ [][NextRays]_vars
\* The handler runs a loop it has entered: no iteration waits for ever.
SpecRaysFair == SpecRays /\ WF_vars(NextRays)

RayDone == fout.pc = "done"
\* The loop in steps of 0.1 has stopped at the first point in a wall, or
\* past MAX_RAY_DEPTH with sky over floor in the column.
D_RayStopped ==
    IF fout.hitWall
    THEN /\ WallAtStep(variant, fin.eye.x, fin.eye.y, fout.eyeX, fout.eyeY, fout.distToWall)
         /\ \A before \in 1..(fout.distToWall - 1) :
               ~WallAtStep(variant, fin.eye.x, fin.eye.y, fout.eyeX, fout.eyeY, before)
    ELSE /\ fout.distToWall * 100 >= MAX_RAY_DEPTH
         /\ fout.column = D_OpenColumn
H_BeyondView == H_PerpAt(fout, fin.eye) > H_MAZE_MAX_VIEW_DISTANCE
H_OpenColumn ==
    [row \in 1..H_MAZE_VIEW_HEIGHT |->
        IF 2 * (row - 1) < H_MAZE_VIEW_HEIGHT THEN H_MAZE_CEILING ELSE H_FloorAt(row - 1)]
\* The grid walk has stopped at a cell that blocks, outside the map, or
\* beyond MAZE_MAX_VIEW_DISTANCE, and there the column shows no wall.
H_RayStopped ==
    /\ H_Blocked(fout.mapY, fout.mapX) \/ fout.left \/ H_BeyondView
    /\ H_BeyondView => fout.column = H_OpenColumn
\* The grid walk has passed through no cell that blocks.
H_RayInTheOpen == fout.hit = 0 => ~H_Blocked(fout.mapY, fout.mapX)
RayLoopSound ==
    IF variant = "horror" THEN (IF RayDone THEN H_RayStopped ELSE H_RayInTheOpen)
    ELSE (RayDone => D_RayStopped)

\* C34: every ray loop stops, the loop in steps of 0.1 at the first point
\* in a wall or past MAX_RAY_DEPTH and the grid walk at the first cell
\* that blocks or beyond MAZE_MAX_VIEW_DISTANCE; a column whose ray met
\* nothing within that depth is half ceiling, half floor.
C34_RenderingTerminates == <>RayDone /\ []RayLoopSound
C34_Witness == variant = "horror" /\ RayDone /\ H_BeyondView

----------------------------------------------------------------------------
(* The doom map as getMapTile reads it.                                     *)

D_TILES == {"#", ".", "P", "E"}
D_OnBorder(x, y) ==
    \/ Floor(x) = 0 \/ Floor(x) = D_MAP_WIDTH - 1
    \/ Floor(y) = 0 \/ Floor(y) = D_MAP_HEIGHT - 1
LookedUp == fin.f = "lookup" /\ fout # NoValue

\* C35: INITIAL_MAP_LAYOUT has MAP_HEIGHT rows of MAP_WIDTH tiles each, so
\* getMapTile returns a tile character for every coordinate in bounds, and
\* every tile on the border of the grid is a wall.
C35_MapEnclosed ==
    /\ Len(D_INITIAL_MAP_LAYOUT) = D_MAP_HEIGHT
    /\ (variant = "doom" /\ LookedUp /\ ~OutOfBounds(variant, fin.x, fin.y)) =>
          /\ Len(D_INITIAL_MAP_LAYOUT[Floor(fin.y) + 1]) = D_MAP_WIDTH
          /\ "tile" \in DOMAIN fout /\ fout.tile \in D_TILES
          /\ D_OnBorder(fin.x, fin.y) => fout.wall

D_Downed(s) == { i \in 1..Len(s.enemies) : ~s.enemies[i].isActive }

\* C36: in every state of a doom game played from the initial state, an
\* enemy is active exactly when its hp is above 0, and a player without
\* health is in a finished game.
C36_ActiveTracksHealth ==
    variant = "doom" =>
        /\ \A i \in 1..Len(st.enemies) : st.enemies[i].isActive <=> st.enemies[i].hp > 0
        /\ st.php <= 0 => st.gameOver
\* A shot has just brought an enemy down.
C36_Witness ==
    /\ variant = "doom" /\ act = "shoot"
    /\ D_Downed(st) # D_Downed(prev)

\* Enemy i was brought down by the shot of this turn.
D_KilledNow(i) == prev.enemies[i].isActive /\ ~st.enemies[i].isActive
D_Stands(i) ==
    /\ st.enemies[i].x = prev.enemies[i].x
    /\ st.enemies[i].y = prev.enemies[i].y
\* The enemies that could act in this turn: those the shot left active.
D_Survivors == { i \in 1..Len(st.enemies) : st.enemies[i].isActive }
\* Enemy i, shot from where the player stands after moving, was in contact
\* with the player: it would have attacked had it acted.
D_InReach(i) ==
    Dist(D_BeforeShot.px - prev.enemies[i].x, D_BeforeShot.py - prev.enemies[i].y)
        < D_CONTACT_RANGE

\* C37: a doom turn is toggles, turning, movement, shoot, enemy AI and win
\* check in this order; an enemy brought down by the shot of the turn
\* neither moves nor wounds the player in it, and an inactive enemy never
\* moves.
C37_KilledEnemyDoesNotAct ==
    D_LiveTurn =>
        /\ st = D_WinCheck(D_EnemyAIFrom(D_ApplyShoot(D_BeforeShot, act), 1))
        /\ \A i \in 1..Len(prev.enemies) :
              (D_KilledNow(i) \/ ~prev.enemies[i].isActive) => D_Stands(i)
        /\ prev.php - st.php <= Cardinality(D_Survivors)
\* An enemy in contact with the player was brought down.
C37_Witness ==
    /\ D_LiveTurn /\ act = "shoot"
    /\ \E i \in 1..Len(prev.enemies) : D_KilledNow(i) /\ D_InReach(i)

----------------------------------------------------------------------------
(* Tetris: src/unnamed/part_003.  The board is a sequence of BOARD_HEIGHT   *)
(* rows of BOARD_WIDTH cells, row y at y + 1 and column x at x + 1.         *)

T_BOARD_WIDTH == 10
T_BOARD_HEIGHT == 20
T_EMPTY_CELL == 0
T_TETROMINOES ==
    << << <<1, 1, 1, 1>> >>,
       << <<1, 1, 0>>, <<0, 1, 1>> >>,
       << <<0, 1, 1>>, <<1, 1, 0>> >>,
       << <<1, 1, 1>>, <<0, 1, 0>> >>,
       << <<1, 1>>, <<1, 1>> >>,
       << <<1, 0, 0>>, <<1, 1, 1>> >>,
       << <<0, 0, 1>>, <<1, 1, 1>> >> >>
T_PIECE_TYPES == 1..Len(T_TETROMINOES)

T_createEmptyBoard == [y \in 1..T_BOARD_HEIGHT |-> [x \in 1..T_BOARD_WIDTH |-> T_EMPTY_CELL]]

\* shape[0].map((_, colIndex) => shape.map(row => row[colIndex]).reverse())
T_Turned(shape) ==
    [c \in 1..Len(shape[1]) |-> [r \in 1..Len(shape) |-> shape[Len(shape) + 1 - r][c]]]
RECURSIVE T_TurnedTimes(_, _)
T_TurnedTimes(shape, rotation) ==
    IF rotation <= 0 THEN shape ELSE T_TurnedTimes(T_Turned(shape), rotation - 1)
T_getPieceShape(type, rotation) == T_TurnedTimes(T_TETROMINOES[type], rotation)

\* The cells <<boardX, boardY>> a piece covers.
T_Cells(type, rotation, x, y) ==
    { <<x + c - 1, y + r - 1>> :
        <<r, c>> \in { rc \in (1..4) \X (1..4) :
                         /\ rc[1] <= Len(T_getPieceShape(type, rotation))
                         /\ rc[2] <= Len(T_getPieceShape(type, rotation)[1])
                         /\ T_getPieceShape(type, rotation)[rc[1]][rc[2]] # 0 } }
T_InBoard(cell) ==
    /\ cell[1] >= 0 /\ cell[1] < T_BOARD_WIDTH
    /\ cell[2] >= 0 /\ cell[2] < T_BOARD_HEIGHT
\* A faulty test that looks at the walls and the floor only.
T_isValidMove_Through(board, pieceType, rotation, x, y) ==
    \A cell \in T_Cells(pieceType, rotation, x, y) : T_InBoard(cell)
T_isValidMove(board, pieceType, rotation, x, y) ==
    \A cell \in T_Cells(pieceType, rotation, x, y) :
        T_InBoard(cell) /\ board[cell[2] + 1][cell[1] + 1] = T_EMPTY_CELL

\* spawnNewPiece, with drawn the value of getRandomPieceType().
T_SpawnX(type) == (T_BOARD_WIDTH - Len(T_getPieceShape(type, 0)[1])) \div 2
T_spawnNewPiece(state, drawn) ==
    IF ~T_isValidMove(state.board, state.nextPieceType, 0, T_SpawnX(state.nextPieceType), 0)
    THEN [state EXCEPT !.gameOver = TRUE, !.currentPiece = NULL]
    ELSE [state EXCEPT !.currentPiece = [type |-> state.nextPieceType, rotation |-> 0,
                                         x |-> T_SpawnX(state.nextPieceType), y |-> 0],
                       !.nextPieceType = drawn]

\* initialTetrisState: first is the piece drawn for nextPieceType, drawn the
\* one drawn by spawnNewPiece.
T_initialTetrisState(ownerId, allowOthers, first, drawn) ==
    T_spawnNewPiece([board |-> T_createEmptyBoard, currentPiece |-> NULL,
                     nextPieceType |-> first, score |-> 0, linesCleared |-> 0, level |-> 1,
                     gameOver |-> FALSE, ownerId |-> ownerId, allowOthers |-> allowOthers],
                    drawn)

T_Filled(board, cells, type) ==
    [y \in 1..Len(board) |->
        [x \in 1..Len(board[y]) |->
            IF <<x - 1, y - 1>> \in cells THEN type ELSE board[y][x]]]
T_placePieceOnBoard(board, piece) ==
    T_Filled(board, T_Cells(piece.type, piece.rotation, piece.x, piece.y), piece.type)

\* clearLines: the rows with an empty cell, under as many empty rows as
\* were taken out.
T_HasEmpty(row) == \E x \in 1..Len(row) : row[x] = T_EMPTY_CELL
T_Unshifted(newBoard) ==
    [y \in 1..(T_BOARD_HEIGHT - Len(newBoard)) |->
        [x \in 1..T_BOARD_WIDTH |-> T_EMPTY_CELL]] \o newBoard
T_clearLines(board) == T_Unshifted(SelectSeq(board, T_HasEmpty))
T_LinesCleared(board) == T_BOARD_HEIGHT - Len(SelectSeq(board, T_HasEmpty))

T_ScoreFor(lines) ==
    IF lines = 1 THEN 100 ELSE IF lines = 2 THEN 300 ELSE IF lines = 3 THEN 500
    ELSE IF lines = 4 THEN 800 ELSE 0
T_updateScoreAndLevel(state, lines) ==
    IF lines = 0 THEN state
    ELSE [state EXCEPT !.score = state.score + T_ScoreFor(lines) * state.level,
                       !.linesCleared = state.linesCleared + lines,
                       !.level = (state.linesCleared + lines) \div 10 + 1]

\* The piece is locked where it is: placed, the full rows cleared and
\* scored, the next piece spawned.
T_Cleared(state, piece, placed, drawn) ==
    T_spawnNewPiece(
        T_updateScoreAndLevel([state EXCEPT !.currentPiece = piece,
                                            !.board = T_clearLines(placed)],
                              T_LinesCleared(placed)),
        drawn)
T_Lock(state, piece, drawn) ==
    T_Cleared(state, piece, T_placePieceOnBoard(state.board, piece), drawn)
\* while (isValidMove(..., tempY + 1)) tempY++
T_DropY(board, piece) ==
    CHOOSE tempY \in piece.y..T_BOARD_HEIGHT :
        /\ \A between \in (piece.y + 1)..tempY :
              T_isValidMove(board, piece.type, piece.rotation, piece.x, between)
        /\ ~T_isValidMove(board, piece.type, piece.rotation, piece.x, tempY + 1)
T_Moved(state, piece) ==
    IF T_isValidMove(state.board, piece.type, piece.rotation, piece.x, piece.y)
    THEN [state EXCEPT !.currentPiece = piece] ELSE state

T_ACTIONS == {"left", "right", "rotate", "down", "drop"}
\* handleTetrisAction(state, action), with drawn the piece a spawn draws.
T_handleTetrisAction(state, action, drawn) ==
    IF state.gameOver \/ state.currentPiece = NULL THEN state
    ELSE IF action = "left"
    THEN T_Moved(state, [state.currentPiece EXCEPT !.x = state.currentPiece.x - 1])
    ELSE IF action = "right"
    THEN T_Moved(state, [state.currentPiece EXCEPT !.x = state.currentPiece.x + 1])
    ELSE IF action = "rotate"
    THEN T_Moved(state, [state.currentPiece EXCEPT
                            !.rotation = (state.currentPiece.rotation + 1) % 4])
    ELSE IF action = "down"
    THEN (IF T_isValidMove(state.board, state.currentPiece.type, state.currentPiece.rotation,
                           state.currentPiece.x, state.currentPiece.y + 1)
          THEN [state EXCEPT !.currentPiece.y = state.currentPiece.y + 1]
          ELSE T_Lock(state, state.currentPiece, drawn))
    ELSE IF action = "drop"
    THEN T_Lock(state, [state.currentPiece EXCEPT
                           !.y = T_DropY(state.board, state.currentPiece)], drawn)
    ELSE state

----------------------------------------------------------------------------
(* The component handlers of Tetris and the horror maze.  The state of a    *)
(* game is the JSON in the footer of its message: a response of type 7      *)
(* replaces the message, one of type 4 is a message of its own.             *)

Owner == "1001"                     \* the user who ran the command
Guest == "1002"
Users == {Owner, Guest}
ArcadeGames == {"tetris", "horror"}
MaxArcadeTurns == 2                 \* free presses after an opening
T_FreeDraws == {2, 7}               \* the pieces drawn in free presses

\* initialMazeState(ownerId, allowOthers)
H_initialMazeStateFor(ownerId, allowOthers) ==
    H_initialMazeState @@ [ownerId |-> ownerId, allowOthers |-> allowOthers]

\* A faulty test that lets everybody play.
Refused_Nobody(actingUserId, gameState) == FALSE
\* actingUserId !== gameState.ownerId && !gameState.allowOthers
Refused(actingUserId, gameState) ==
    actingUserId # gameState.ownerId /\ ~gameState.allowOthers

T_PREFIX == "tetris_"
H_PREFIX == "maze_"
T_getTetrisComponents(gameOver) ==
    IF gameOver THEN {} ELSE { T_PREFIX \o a : a \in T_ACTIONS }
T_Updated(updatedGameState) ==
    [type |-> 7, state |-> updatedGameState,
     components |-> T_getTetrisComponents(updatedGameState.gameOver)]
\* The branch of customId.startsWith("tetris_").
T_Component(gameState, actingUserId, customId, drawn) ==
    IF Refused(actingUserId, gameState)
    THEN [type |-> 4, content |-> "Not your Tetris game!", flags |-> 64]
    ELSE IF gameState.gameOver
    THEN [type |-> 7, state |-> gameState, components |-> {}]
    ELSE T_Updated(T_handleTetrisAction(gameState,
                       SubSeq(customId, Len(T_PREFIX) + 1, Len(customId)), drawn))
\* The branch of customId.startsWith("maze_").
H_Restarted(gameState, action) ==
    IF action = "restart"
    THEN H_initialMazeStateFor(gameState.ownerId, gameState.allowOthers)
    ELSE H_Toggle(gameState, action)
H_Component(gameState, actingUserId, customId) ==
    IF Refused(actingUserId, gameState)
    THEN [type |-> 4, content |-> "Not your Maze game!", flags |-> 64]
    ELSE [type |-> 7,
          state |-> H_Running(H_Restarted(gameState,
                        SubSeq(customId, Len(H_PREFIX) + 1, Len(customId))))]

\* An opening of Tetris: L left, R right, T rotate, D down, X drop, with
\* every piece drawn the same.  The second stacks the squares to the top,
\* the third lays five squares side by side, the fourth stands the bars
\* on end, the fifth walks two bars down the last column, one onto the
\* other, pressing against the walls on the way.
T_Letter(c) ==
    IF c = "L" THEN "left" ELSE IF c = "R" THEN "right" ELSE IF c = "T" THEN "rotate"
    ELSE IF c = "D" THEN "down" ELSE "drop"
T_Openings ==
    { [moves |-> "", piece |-> 4],
      [moves |-> "XXXXXXXXXX", piece |-> 5],
      [moves |-> "LLLLXLLXXRRXRRRRX", piece |-> 5],
      [moves |-> "TXTXTXTXTX", piece |-> 1],
      [moves |-> "TRRRRRRRTDDDDDDDDDDDDDDDDDLLLLTRRRRRRRRRDDDDDDDDDDDDD", piece |-> 1] }

InitArcade ==
    /\ variant \in ArcadeGames
    /\ \E allowOthers \in BOOLEAN :
          IF variant = "tetris"
          THEN \E o \in T_Openings :
                  \E first \in (IF o.moves = "" THEN T_PIECE_TYPES ELSE {o.piece}) :
                      /\ origin = o.moves
                      /\ fin = [piece |-> o.piece]
                      /\ st = T_initialTetrisState(Owner, allowOthers, first, o.piece)
          ELSE /\ origin = "" /\ fin = NoValue
               /\ st = H_initialMazeStateFor(Owner, allowOthers)
    /\ plan = origin
    /\ prev = NoValue /\ act = "" /\ tok = "" /\ now = T0 /\ turns = 0
    /\ fout = NoValue /\ req = NoPress /\ resp = NoResponse

\* What a press leaves behind: the request, the response, and the message
\* of the game, replaced by a response of type 7.
Pressed(user, customId, response) ==
    /\ req' = [custom_id |-> customId, user |-> user]
    /\ resp' = response
    /\ prev' = st
    /\ st' = IF response.type = 7 THEN response.state ELSE st
    /\ act' = customId
    /\ now' = TimeAdd(now, TickMs)

\* The owner plays the next move of the opening.
TetrisOpening ==
    /\ variant = "tetris" /\ plan # ""
    /\ Pressed(Owner, T_PREFIX \o T_Letter(CharAt(plan, 1)),
               T_Component(st, Owner, T_PREFIX \o T_Letter(CharAt(plan, 1)), fin.piece))
    /\ plan' = Tail(plan)
    /\ UNCHANGED <<variant, tok, turns, origin, fin, fout>>
\* Somebody presses a button of the Tetris message.
TetrisPress ==
    /\ variant = "tetris" /\ plan = "" /\ turns < MaxArcadeTurns
    /\ \E user \in Users, a \in T_ACTIONS, drawn \in T_FreeDraws :
          Pressed(user, T_PREFIX \o a, T_Component(st, user, T_PREFIX \o a, drawn))
    /\ turns' = turns + 1
    /\ UNCHANGED <<variant, tok, origin, plan, fin, fout>>
\* Somebody presses a button of the maze message.
MazePress ==
    /\ variant = "horror" /\ turns < MaxArcadeTurns
    /\ \E user \in Users, a \in H_ACTIONS :
          Pressed(user, H_PREFIX \o a, H_Component(st, user, H_PREFIX \o a))
    /\ turns' = turns + 1
    /\ UNCHANGED <<variant, tok, origin, plan, fin, fout>>

NextArcade == TetrisOpening \/ TetrisPress \/ MazePress

SpecArcade == InitArcade /\ [][NextArcade]_vars

\* The last press came from a user the game does not listen to.
PressRefused == req # NoPress /\ req.user # prev.ownerId /\ ~prev.allowOthers

\* C38: a press by a user who is not the owner of a Tetris or horror maze
\* game that does not allow others changes nothing: no action is applied,
\* restart included, and the response carries no state.
C38_OwnerOnly ==
    (variant \in ArcadeGames /\ PressRefused) =>
        /\ st = prev
        /\ resp.type = 4 /\ "state" \notin DOMAIN resp
\* A stranger pressed restart on a maze the owner had played.
C38_Witness ==
    /\ variant = "horror" /\ PressRefused
    /\ req.custom_id = H_PREFIX \o "restart"
    /\ prev # H_initialMazeStateFor(Owner, FALSE)

T_PieceFits(state) ==
    \A cell \in T_Cells(state.currentPiece.type, state.currentPiece.rotation,
                        state.currentPiece.x, state.currentPiece.y) :
        T_InBoard(cell) /\ state.board[cell[2] + 1][cell[1] + 1] = T_EMPTY_CELL

\* C39: in every state of a Tetris game the board is BOARD_HEIGHT rows of
\* BOARD_WIDTH cells, the current piece, if there is one, covers only cells
\* of the board that are empty, no row of the board is full, and a press
\* on a finished game leaves the state as it was.
C39_BoardIntegrity ==
    variant = "tetris" =>
        /\ Len(st.board) = T_BOARD_HEIGHT
        /\ \A y \in 1..Len(st.board) :
              Len(st.board[y]) = T_BOARD_WIDTH /\ T_HasEmpty(st.board[y])
        /\ st.currentPiece # NULL => T_PieceFits(st)
        /\ (req # NoPress /\ prev.gameOver) => st = prev
\* A player pressed a button of a game that was over, after lines had
\* been cleared or the pieces had reached the top.
C39_Witness ==
    /\ variant = "tetris" /\ req # NoPress /\ ~PressRefused
    /\ prev.gameOver /\ ~T_isValidMove(prev.board, prev.nextPieceType, 0,
                                        T_SpawnX(prev.nextPieceType), 0)
====
